---------------------------- MODULE Spec2Model ----------------------------
(***************************************************************************)
(* shell-tunnel: session registry and lifecycle state machine, the HTTP    *)
(* session handlers, the command executor's streaming worker and the       *)
(* WebSocket handlers.                                                     *)
(*                                                                         *)
(* Groups of variables, one per specification:                             *)
(*   SpecState  the SessionState value under transition_to                 *)
(*   Spec       the registry and the HTTP handlers create / delete /       *)
(*              execute, one step per lock acquisition                     *)
(*   SpecWs, SpecWsBurst, SpecAsync                                        *)
(*              execute_async's blocking worker, its bounded channel and   *)
(*              its consumer (a WebSocket handler or a library caller)     *)
(*   SpecExec, SpecExecFair                                                *)
(*              one run of execute_sync against a child process and a      *)
(*              clock, and the response built from its result              *)
(*   SpecStore  threads calling the SessionStore operations                *)
(*   SpecRl, SpecRlPoison                                                  *)
(*              sources calling the rate limiter's check, and the same     *)
(*              with one of its locks poisoned                             *)
(*   SpecGate   requests passing the rate-limit and auth layers of the     *)
(*              secure router                                              *)
(*   SpecId     SessionId's Display and FromStr                            *)
(*   SpecSan    OutputSanitizer::strip_ansi over byte inputs               *)
(*   SpecCfg    Config::load over command-line flags, environment          *)
(*              variables and a configuration file                         *)
(*   SpecRlConc threads inside the rate limiter's check and stats, one     *)
(*              step per lock acquisition or release                       *)
(***************************************************************************)
EXTENDS Integers, Sequences, FiniteSets, TLC

VARIABLES
    \* ---- SessionState under test (session/state.rs)
    st,         \* the SessionState value
    stLog,      \* the transition_to calls made so far: <<from, target, ok, after>>
    \* ---- registry and HTTP handlers (session/store.rs, api/handlers.rs)
    sessions,   \* SessionStore.sessions: id -> Session
    counter,    \* session/id.rs COUNTER
    now,        \* Instant::now(), a coarse monotonic clock
    reqs,       \* the HTTP requests: slot -> position and locals of its handler
    \* ---- execute_async and its consumers (execution/executor.rs, api/websocket.rs)
    wsKind,     \* "scoped" (handle_socket), "oneshot" (handle_oneshot_socket), "lib", "off"
    wsPc,       \* position of the consumer
    connected,  \* the client side of the socket is still there (sink.send succeeds)
    inbox,      \* client frames not yet taken from the stream, in arrival order
    nFrames,    \* client frames sent so far
    frameBudget,\* how many frames the client sends at most
    taken,      \* log of the frames taken from the stream
    sent,       \* frames delivered to the client, in order
    workers,    \* execute number -> the execute_async run (worker, channel, handle)
    ptyTotal,   \* chunks read from PTYs so far
    chunkBudget,\* how many chunks the PTYs yield at most
    \* ---- one run of the executor's read loop against its child (execution/executor.rs)
    run,        \* the run: caller, thread, position, clock, child, PTY buffer, result
    \* ---- the registry under concurrent callers (session/store.rs)
    reg,        \* lock poisoning, the callers' positions and the record of their calls
    \* ---- the rate limiter (security/rate_limit.rs)
    rl,         \* the limiter's entries, its clock and the checks made
    \* ---- the admission chain in front of the handlers (api/router.rs, security/auth.rs)
    gate,       \* the key store, the request in the chain and the answers given
    \* ---- functions applied to one input (session/id.rs, output/sanitizer.rs)
    pf          \* the input and what the function returned

stVars   == <<st, stLog>>
httpVars == <<sessions, counter, now, reqs>>
wsVars   == <<wsKind, wsPc, connected, inbox, nFrames, frameBudget, taken, sent,
              workers, ptyTotal, chunkBudget>>
extVars  == <<run, reg, rl, gate, pf>>
vars     == <<st, stLog, sessions, counter, now, reqs, wsKind, wsPc, connected,
              inbox, nFrames, frameBudget, taken, sent, workers, ptyTotal,
              chunkBudget, run, reg, rl, gate, pf>>

None == "None"

\* Option<T> as a set of at most one value
Some(x) == {x}
Nothing == {}

(***************************************************************************)
(* Bounds                                                                  *)
(***************************************************************************)
MaxCalls    == 3    \* transition_to calls in one SpecState behaviour
MaxSessions == 1    \* sessions created in one behaviour
MaxReqs     == 3    \* HTTP requests in one behaviour
MaxTime     == 1    \* clock ticks

(***************************************************************************)
(* session/state.rs                                                        *)
(***************************************************************************)
SessionState == {"Created", "Active", "Idle", "Terminated"}

can_transition_to_lax(from, target) ==
    <<from, target>> \in { <<"Created", "Active">>, <<"Created", "Idle">>,
                           <<"Active", "Idle">>, <<"Active", "Terminated">>,
                           <<"Idle", "Active">>, <<"Idle", "Terminated">>,
                           <<"Terminated", "Active">> }

can_transition_to(from, target) ==
    <<from, target>> \in { <<"Created", "Active">>,
                           <<"Active", "Idle">>,
                           <<"Active", "Terminated">>,
                           <<"Idle", "Active">>,
                           <<"Idle", "Terminated">> }

\* transition_to: the value after the call and whether it returned Ok(())
transition_to(from, target) ==
    IF can_transition_to(from, target)
    THEN [ok |-> TRUE,  state |-> target]
    ELSE [ok |-> FALSE, state |-> from]

is_terminal(s) == s = "Terminated"

can_execute(s) == s \in {"Active", "Idle"}

(***************************************************************************)
(* SpecState: transition_to applied to every state with every target       *)
(***************************************************************************)
InitHttpIdle ==
    /\ sessions = << >>
    /\ counter = 1
    /\ now = 0
    /\ reqs = << >>

InitWsIdle ==
    /\ wsKind = "off"
    /\ wsPc = "closed"
    /\ connected = FALSE
    /\ inbox = << >>
    /\ nFrames = 0
    /\ frameBudget = 0
    /\ taken = << >>
    /\ sent = << >>
    /\ workers = << >>
    /\ ptyTotal = 0
    /\ chunkBudget = 0

InitStIdle ==
    /\ st = "Created"
    /\ stLog = << >>

InitExtIdle ==
    /\ run = [pc |-> "off"]
    /\ reg = [pc |-> "off"]
    /\ rl = [pc |-> "off"]
    /\ gate = [pc |-> "off"]
    /\ pf = [pc |-> "off"]

InitState ==
    /\ st \in SessionState
    /\ stLog = << >>
    /\ InitHttpIdle
    /\ InitWsIdle
    /\ InitExtIdle

TransitionTo(target) ==
    /\ Len(stLog) < MaxCalls
    /\ LET r == transition_to(st, target)
       IN  /\ st' = r.state
           /\ stLog' = Append(stLog, [from |-> st, to |-> target,
                                      ok |-> r.ok, after |-> r.state])
    /\ UNCHANGED <<httpVars, wsVars, extVars>>

NextState == \E target \in SessionState : TransitionTo(target)

SpecState == InitState /\ [][NextState]_vars


(***************************************************************************)
(* session/store.rs, session/context.rs, session/id.rs                     *)
(***************************************************************************)
\* Session::new: state Created, empty context, last_activity = now
Session_new(t) ==
    [state |-> "Created", last_activity |-> t, last_command |-> Nothing,
     last_exit_code |-> Nothing, execution_count |-> 0]

\* SessionStore::get / contains
store_contains(S, id) == id \in DOMAIN S

store_get(S, id) == IF id \in DOMAIN S THEN Some(S[id]) ELSE Nothing

\* SessionStore::create: insert under the id drawn from COUNTER
store_create(S, id, t) == [i \in DOMAIN S \cup {id} |-> IF i = id THEN Session_new(t) ELSE S[i]]

\* the sessions a closure handed to SessionStore::update may be run on
Stored(S) == {S[i] : i \in DOMAIN S}

\* SessionStore::update: Err(SessionNotFound) when absent, else f(session)
store_update(S, id, f) ==
    IF id \in DOMAIN S
    THEN [ok |-> TRUE,  map |-> [S EXCEPT ![id] = f[S[id]]]]
    ELSE [ok |-> FALSE, map |-> S]

\* SessionStore::remove
store_remove(S, id) == [i \in DOMAIN S \ {id} |-> S[i]]

\* Session::touch
touch(s, t) == [s EXCEPT !.last_activity = t]

\* record_execution with the counter left alone
record_execution_keep_count(s, cmd, exit_code) ==
    [s EXCEPT !.last_command = Some(cmd), !.last_exit_code = exit_code]

\* SessionContext::record_execution
record_execution(s, cmd, exit_code) ==
    [s EXCEPT !.last_command = Some(cmd),
              !.last_exit_code = exit_code,
              !.execution_count = @ + 1]

\* the closure `let _ = s.state.transition_to(target)`
set_state(s, target) == [s EXCEPT !.state = transition_to(s.state, target).state]

(***************************************************************************)
(* execute_sync, by its outcomes (execution/executor.rs)                   *)
(***************************************************************************)
\* Ok(ExecutionResult): exit code Some(0), Some(n), None; or the timeout result
SyncResults ==
    { [kind |-> "ok", exit_code |-> Some(0), timed_out |-> FALSE],
      [kind |-> "ok", exit_code |-> Some(1), timed_out |-> FALSE],
      [kind |-> "ok", exit_code |-> Nothing, timed_out |-> FALSE],
      [kind |-> "ok", exit_code |-> Nothing, timed_out |-> TRUE] }

\* Err(Io) from the read loop, after the shell was spawned
SyncError == [kind |-> "err", exit_code |-> Nothing, timed_out |-> FALSE]

NoResult == [kind |-> "none", exit_code |-> Nothing, timed_out |-> FALSE]

(***************************************************************************)
(* api/handlers.rs: one request per slot, one step per lock acquisition    *)
(***************************************************************************)
\* cmd: the command line of an execute request, one text per request
NoReq(kind, id, cmd) ==
    [kind |-> kind, id |-> id, cmd |-> cmd, pc |-> "start",
     resp |-> 0, code |-> None, result |-> NoResult,
     seen |-> None,          \* stored state at the handler's first access
     marked |-> None,        \* stored state right after "mark session as active"
     started |-> None,       \* stored state when the command was started
     idled |-> None,         \* stored state right after "mark session as idle"
     idledAt |-> -1,         \* ... and the clock then
     idledAct |-> -1,        \* ... and the session's last_activity then
     removed |-> None,       \* stored state of the session remove() returned
     ctxCmd |-> Nothing,        \* last_command right after record_execution
     ctxExit |-> Nothing,    \* last_exit_code right after record_execution
     ctxCount |-> -1,        \* execution_count right after record_execution
     ctxWith |-> -1,         \* other executes of the session under way at that moment
     err |-> None]           \* the error the request failed with, by variant

StoredState(S, id) == IF id \in DOMAIN S THEN S[id].state ELSE "Absent"

Respond(r, status, code) == [r EXCEPT !.pc = "done", !.resp = status, !.code = code]

\* a request arrives; ids of sessions not (or no longer) in the registry included
Arrive(kind, id) ==
    /\ Len(reqs) < MaxReqs
    /\ reqs' = Append(reqs, NoReq(kind, id, Len(reqs) + 1))
    /\ UNCHANGED <<sessions, counter, now, stVars, wsVars, extVars>>

\* the clock advances
Tick ==
    /\ now < MaxTime
    /\ now' = now + 1
    /\ UNCHANGED <<sessions, counter, reqs, stVars, wsVars, extVars>>

\* ---- create_session
\* store.create(config): SessionId::new() and the insert
CreateStore(k) ==
    /\ reqs[k].kind = "create" /\ reqs[k].pc = "start"
    /\ counter <= MaxSessions
    /\ sessions' = store_create(sessions, counter, now)
    /\ counter' = counter + 1
    /\ reqs' = [reqs EXCEPT ![k] = [@ EXCEPT !.id = counter, !.pc = "c_update"]]
    /\ UNCHANGED <<now, stVars, wsVars, extVars>>

\* the state the create handler asks for before answering 201
create_target == "Idle"

\* store.update(id, transition_to(Idle)).ok(); 201
CreateUpdate(k) ==
    /\ reqs[k].kind = "create" /\ reqs[k].pc = "c_update"
    /\ LET u == store_update(sessions, reqs[k].id,
                            [s \in Stored(sessions) |-> set_state(s, create_target)])
       IN  /\ sessions' = u.map
           /\ reqs' = [reqs EXCEPT ![k] =
                         [Respond(@, 201, None) EXCEPT
                            !.seen = StoredState(u.map, reqs[k].id)]]
    /\ UNCHANGED <<counter, now, stVars, wsVars, extVars>>

\* ---- delete_session
\* store.update(id, transition_to(Terminated)), 404 when absent
DeleteUpdate(k) ==
    /\ reqs[k].kind = "delete" /\ reqs[k].pc = "start"
    /\ LET id == reqs[k].id
           u  == store_update(sessions, id, [s \in Stored(sessions) |-> set_state(s, "Terminated")])
       IN  /\ sessions' = u.map
           /\ reqs' = [reqs EXCEPT ![k] =
                         IF u.ok
                         THEN [@ EXCEPT !.pc = "d_remove",
                                        !.seen = StoredState(sessions, id)]
                         ELSE Respond(@, 404, "SESSION_NOT_FOUND")]
    /\ UNCHANGED <<counter, now, stVars, wsVars, extVars>>

\* store.remove(id); 204 whether or not a session was returned
DeleteRemove(k) ==
    /\ reqs[k].kind = "delete" /\ reqs[k].pc = "d_remove"
    /\ LET id == reqs[k].id
       IN  /\ sessions' = store_remove(sessions, id)
           /\ reqs' = [reqs EXCEPT ![k] =
                         [Respond(@, 204, None) EXCEPT
                            !.removed = StoredState(sessions, id)]]
    /\ UNCHANGED <<counter, now, stVars, wsVars, extVars>>

\* ---- execute_command and CommandExecutor::execute_in_session
\* handler: store.get(id), 404 when absent, 409 when not can_execute
ExecHandlerGet(k) ==
    /\ reqs[k].kind = "execute" /\ reqs[k].pc = "start"
    /\ LET id == reqs[k].id
       IN  reqs' = [reqs EXCEPT ![k] =
                      IF ~store_contains(sessions, id)
                      THEN [Respond(@, 404, "SESSION_NOT_FOUND") EXCEPT
                              !.err = "SessionNotFound"]
                      ELSE IF ~can_execute(sessions[id].state)
                      THEN [Respond(@, 409, "INVALID_STATE") EXCEPT
                              !.seen = sessions[id].state, !.err = "NotExecutable"]
                      ELSE [@ EXCEPT !.pc = "e_get", !.seen = sessions[id].state]]
    /\ UNCHANGED <<sessions, counter, now, stVars, wsVars, extVars>>

\* executor: store.get(id) again; SessionNotFound / NotExecutable come back as
\* Err and the handler answers every Err of execute_in_session with 500
ExecutorGet(k) ==
    /\ reqs[k].kind = "execute" /\ reqs[k].pc = "e_get"
    /\ LET id == reqs[k].id
       IN  reqs' = [reqs EXCEPT ![k] =
                      IF ~store_contains(sessions, id)
                      THEN [Respond(@, 500, "INTERNAL_ERROR") EXCEPT
                              !.err = "SessionNotFound"]
                      ELSE IF ~can_execute(sessions[id].state)
                      THEN [Respond(@, 500, "INTERNAL_ERROR") EXCEPT
                              !.err = "NotExecutable"]
                      ELSE [@ EXCEPT !.pc = "e_mark"]]
    /\ UNCHANGED <<sessions, counter, now, stVars, wsVars, extVars>>

\* the closure of "mark session as active"
mark_active(s, t) == touch(set_state(s, "Active"), t)

\* executor: store.update(id, transition_to(Active); touch)?
ExecutorMarkActive(k) ==
    /\ reqs[k].kind = "execute" /\ reqs[k].pc = "e_mark"
    /\ LET id == reqs[k].id
           u  == store_update(sessions, id, [s \in Stored(sessions) |-> mark_active(s, now)])
       IN  /\ sessions' = u.map
           /\ reqs' = [reqs EXCEPT ![k] =
                         IF u.ok
                         THEN [@ EXCEPT !.pc = "e_spawn",
                                        !.marked = u.map[id].state]
                         ELSE [Respond(@, 500, "INTERNAL_ERROR") EXCEPT
                                 !.err = "SessionNotFound"]]
    /\ UNCHANGED <<counter, now, stVars, wsVars, extVars>>

\* executor: execute_sync spawns the shell and writes the command; a spawn or
\* write failure is Err(Pty / Io) and no command runs
ExecutorSpawn(k) ==
    /\ reqs[k].kind = "execute" /\ reqs[k].pc = "e_spawn"
    /\ \E spawned \in BOOLEAN :
         reqs' = [reqs EXCEPT ![k] =
                    IF spawned
                    THEN [@ EXCEPT !.pc = "e_run",
                                   !.started = StoredState(sessions, reqs[k].id)]
                    ELSE [@ EXCEPT !.pc = "e_idle", !.result = SyncError]]
    /\ UNCHANGED <<sessions, counter, now, stVars, wsVars, extVars>>

\* executor: the read loop of execute_sync ends
ExecutorRun(k) ==
    /\ reqs[k].kind = "execute" /\ reqs[k].pc = "e_run"
    /\ \E res \in SyncResults \cup {SyncError} :
         reqs' = [reqs EXCEPT ![k] = [@ EXCEPT !.pc = "e_idle", !.result = res]]
    /\ UNCHANGED <<sessions, counter, now, stVars, wsVars, extVars>>

\* "mark session as idle" without the touch
mark_idle_no_touch(s, t) == set_state(s, "Idle")

\* the closure of "mark session as idle"
mark_idle(s, t) == touch(set_state(s, "Idle"), t)

\* executor: store.update(id, transition_to(Idle); touch)? and the result is
\* returned; handler: Err -> 500, Ok -> record
ExecutorMarkIdle(k) ==
    /\ reqs[k].kind = "execute" /\ reqs[k].pc = "e_idle"
    /\ LET id == reqs[k].id
           u  == store_update(sessions, id, [s \in Stored(sessions) |-> mark_idle(s, now)])
       IN  /\ sessions' = u.map
           /\ reqs' = [reqs EXCEPT ![k] =
                         IF ~u.ok
                         THEN [Respond(@, 500, "INTERNAL_ERROR") EXCEPT
                                 !.err = "SessionNotFound"]
                         ELSE IF reqs[k].result.kind = "err"
                         THEN [Respond(@, 500, "INTERNAL_ERROR") EXCEPT
                                 !.err = "Pty",
                                 !.idled = u.map[id].state,
                                 !.idledAt = now,
                                 !.idledAct = u.map[id].last_activity]
                         ELSE [@ EXCEPT !.pc = "h_record",
                                        !.idled = u.map[id].state,
                                        !.idledAt = now,
                                        !.idledAct = u.map[id].last_activity]]
    /\ UNCHANGED <<counter, now, stVars, wsVars, extVars>>

\* handler: store.update(id, record_execution(command, exit_code)).ok(); 200
ExecHandlerRecord(k) ==
    /\ reqs[k].kind = "execute" /\ reqs[k].pc = "h_record"
    /\ LET id == reqs[k].id
           r  == reqs[k]
           u  == store_update(sessions, id,
                     [s \in Stored(sessions) |->
                          record_execution(s, r.cmd, r.result.exit_code)])
       IN  /\ sessions' = u.map
           /\ reqs' = [reqs EXCEPT ![k] =
                         IF u.ok
                         THEN [Respond(@, 200, None) EXCEPT
                                 !.ctxCmd = u.map[id].last_command,
                                 !.ctxExit = u.map[id].last_exit_code,
                                 !.ctxCount = u.map[id].execution_count,
                                 !.ctxWith = Cardinality(
                                     {j \in DOMAIN reqs :
                                        /\ j # k
                                        /\ reqs[j].kind = "execute"
                                        /\ reqs[j].id = id
                                        /\ reqs[j].pc \notin {"start", "done"}})]
                         ELSE Respond(@, 200, None)]
    /\ UNCHANGED <<counter, now, stVars, wsVars, extVars>>

\* ---- a caller of the library marks a session Active through SessionStore::update
StoreActivate(id) ==
    /\ store_contains(sessions, id)
    /\ sessions[id].state = "Created"
    /\ sessions' = store_update(sessions, id, [s \in Stored(sessions) |-> set_state(s, "Active")]).map
    /\ UNCHANGED <<counter, now, reqs, stVars, wsVars, extVars>>

(***************************************************************************)
(* Spec: the registry under concurrent HTTP requests                       *)
(***************************************************************************)
Init ==
    /\ InitHttpIdle
    /\ InitStIdle
    /\ InitExtIdle
    /\ InitWsIdle

SessionIds == 1 .. MaxSessions

Next ==
    \/ Arrive("create", 0)
    \/ \E id \in SessionIds : Arrive("delete", id)
    \/ \E id \in SessionIds : Arrive("execute", id)
    \/ Tick
    \/ \E id \in SessionIds : StoreActivate(id)
    \/ \E k \in DOMAIN reqs : CreateStore(k)
    \/ \E k \in DOMAIN reqs : CreateUpdate(k)
    \/ \E k \in DOMAIN reqs : DeleteUpdate(k)
    \/ \E k \in DOMAIN reqs : DeleteRemove(k)
    \/ \E k \in DOMAIN reqs : ExecHandlerGet(k)
    \/ \E k \in DOMAIN reqs : ExecutorGet(k)
    \/ \E k \in DOMAIN reqs : ExecutorMarkActive(k)
    \/ \E k \in DOMAIN reqs : ExecutorSpawn(k)
    \/ \E k \in DOMAIN reqs : ExecutorRun(k)
    \/ \E k \in DOMAIN reqs : ExecutorMarkIdle(k)
    \/ \E k \in DOMAIN reqs : ExecHandlerRecord(k)

Spec == Init /\ [][Next]_vars

(***************************************************************************)
(* execution/executor.rs: execute_async.  One run per call: the blocking   *)
(* worker, the bounded chunk channel (tx in the worker, rx with the        *)
(* caller) and the JoinHandle.  A chunk is named by its number in the      *)
(* order the PTYs yielded them.                                            *)
(***************************************************************************)
ChannelCapacity == 64

NoAsyncResult == [kind |-> "none", exit_code |-> Nothing, timed_out |-> FALSE, raw |-> << >>]

\* what execute_async sets up before it returns Ok((rx, handle))
NewRun(frame) ==
    [pc |-> "spawn",        \* position of the worker closure
     chan |-> << >>,        \* chunks in the channel
     rxAlive |-> TRUE,      \* the Receiver has not been dropped
     rxDropped |-> "no",    \* how the worker stood when rx was dropped under it
     raw |-> << >>,         \* raw_output
     read |-> << >>,        \* what reader.read has returned to this worker
     pending |-> 0,         \* the chunk blocking_send is called with
     result |-> NoAsyncResult,   \* what the JoinHandle resolves to
     frame |-> frame]       \* the client frame that asked for it (0: a library call)

Running(w) == w.pc # "done"

\* the closure returns: tx is dropped and the JoinHandle resolves to
\* kind "ok" (Ok(ExecutionResult)), "Pty" / "Io" (Err(ShellTunnelError)) or
\* "panic" (JoinError)
Finish(w, kind, exit_code, timed_out) ==
    [w EXCEPT !.pc = "done", !.pending = 0,
              !.result = [kind |-> kind, exit_code |-> exit_code,
                          timed_out |-> timed_out, raw |-> w.raw]]

\* spawn_shell, take_writer, take_reader, write_all, flush: Err(Pty / Io) or on
WorkerSpawn(e) ==
    /\ e \in DOMAIN workers /\ workers[e].pc = "spawn"
    /\ \E ok \in BOOLEAN :
         workers' = [workers EXCEPT ![e] =
                       IF ok THEN [@ EXCEPT !.pc = "loop"]
                       ELSE Finish(@, "Pty", Nothing, FALSE)]
    /\ UNCHANGED <<wsKind, wsPc, connected, inbox, nFrames, frameBudget, taken,
                   sent, ptyTotal, chunkBudget, httpVars, stVars, extVars>>

\* top of the loop: start.elapsed() > timeout_duration returns the timeout result
WorkerTimeout(e) ==
    /\ e \in DOMAIN workers /\ workers[e].pc = "loop"
    /\ workers' = [workers EXCEPT ![e] = Finish(@, "ok", Nothing, TRUE)]
    /\ UNCHANGED <<wsKind, wsPc, connected, inbox, nFrames, frameBudget, taken,
                   sent, ptyTotal, chunkBudget, httpVars, stVars, extVars>>

\* a read that returned n > 0 bytes: raw_output grows by the chunk
TakeChunk(w, c) ==
    [w EXCEPT !.raw = Append(@, c), !.read = Append(@, c), !.pending = c]

\* reader.read in the loop: Ok(n), Ok(0) or Err(e) (WouldBlock sleeps and retries)
WorkerRead(e) ==
    /\ e \in DOMAIN workers /\ workers[e].pc = "loop"
    /\ \/ /\ ptyTotal < chunkBudget
          /\ ptyTotal' = ptyTotal + 1
          /\ workers' = [workers EXCEPT ![e] =
                           [TakeChunk(@, ptyTotal + 1) EXCEPT !.pc = "send"]]
       \/ /\ workers' = [workers EXCEPT ![e] = [@ EXCEPT !.pc = "wait"]]
          /\ UNCHANGED ptyTotal
       \/ /\ workers' = [workers EXCEPT ![e] = Finish(@, "Io", Nothing, FALSE)]
          /\ UNCHANGED ptyTotal
    /\ UNCHANGED <<wsKind, wsPc, connected, inbox, nFrames, frameBudget, taken,
                   sent, chunkBudget, httpVars, stVars, extVars>>

\* the closure panics: the JoinHandle resolves to Err(JoinError)
WorkerPanic(e) ==
    /\ e \in DOMAIN workers /\ workers[e].pc = "loop"
    /\ workers' = [workers EXCEPT ![e] = Finish(@, "panic", Nothing, FALSE)]
    /\ UNCHANGED <<wsKind, wsPc, connected, inbox, nFrames, frameBudget, taken,
                   sent, ptyTotal, chunkBudget, httpVars, stVars, extVars>>

\* a send that never waits for room
blocking_send_ready_always(w) == TRUE

\* blocking_send returns: at once with Err when the receiver is gone, else once
\* the channel has room
blocking_send_ready(w) == ~w.rxAlive \/ Len(w.chan) < ChannelCapacity

\* the channel after tx.blocking_send(chunk), newest first
blocking_send_lifo(w) ==
    IF w.rxAlive THEN <<w.pending>> \o w.chan ELSE w.chan

\* the channel after `let _ = tx.blocking_send(chunk)`
blocking_send(w) ==
    IF w.rxAlive THEN Append(w.chan, w.pending) ELSE w.chan

\* what the send makes of the run when its Err(ChannelSend) is propagated
after_send_abort(w, pc) ==
    IF w.rxAlive
    THEN [w EXCEPT !.chan = blocking_send(w), !.pending = 0, !.pc = pc]
    ELSE Finish(w, "ChannelSend", Nothing, FALSE)

\* what the send makes of the run: the result of blocking_send is ignored
after_send(w, pc) ==
    [w EXCEPT !.chan = blocking_send(w), !.pending = 0, !.pc = pc]

\* tx.blocking_send in the loop, then shell.try_wait(): Ok(Some(_)) starts the
\* drain of the remaining output
WorkerSend(e) ==
    /\ e \in DOMAIN workers /\ workers[e].pc = "send"
    /\ blocking_send_ready(workers[e])
    /\ \E exited \in BOOLEAN :
         workers' = [workers EXCEPT ![e] =
                       after_send(@, IF exited THEN "drain" ELSE "loop")]
    /\ UNCHANGED <<wsKind, wsPc, connected, inbox, nFrames, frameBudget, taken,
                   sent, ptyTotal, chunkBudget, httpVars, stVars, extVars>>

\* `while let Ok(n) = reader.read(..)`: n > 0 is one more chunk, 0 or Err ends it
WorkerDrain(e) ==
    /\ e \in DOMAIN workers /\ workers[e].pc = "drain"
    /\ \/ /\ ptyTotal < chunkBudget
          /\ ptyTotal' = ptyTotal + 1
          /\ workers' = [workers EXCEPT ![e] =
                           [TakeChunk(@, ptyTotal + 1) EXCEPT !.pc = "drainsend"]]
       \/ /\ workers' = [workers EXCEPT ![e] = [@ EXCEPT !.pc = "wait"]]
          /\ UNCHANGED ptyTotal
    /\ UNCHANGED <<wsKind, wsPc, connected, inbox, nFrames, frameBudget, taken,
                   sent, chunkBudget, httpVars, stVars, extVars>>

\* tx.blocking_send inside the drain
WorkerDrainSend(e) ==
    /\ e \in DOMAIN workers /\ workers[e].pc = "drainsend"
    /\ blocking_send_ready(workers[e])
    /\ workers' = [workers EXCEPT ![e] = after_send(@, "drain")]
    /\ UNCHANGED <<wsKind, wsPc, connected, inbox, nFrames, frameBudget, taken,
                   sent, ptyTotal, chunkBudget, httpVars, stVars, extVars>>

\* shell.wait().ok(): exit code 0 on success, the child's code, or none
ExitCodes == {Some(0), Some(1), Nothing}

WorkerWait(e) ==
    /\ e \in DOMAIN workers /\ workers[e].pc = "wait"
    /\ \E code \in ExitCodes :
         workers' = [workers EXCEPT ![e] = Finish(@, "ok", code, FALSE)]
    /\ UNCHANGED <<wsKind, wsPc, connected, inbox, nFrames, frameBudget, taken,
                   sent, ptyTotal, chunkBudget, httpVars, stVars, extVars>>

WorkerStep ==
    \/ \E e \in DOMAIN workers : WorkerSpawn(e)
    \/ \E e \in DOMAIN workers : WorkerTimeout(e)
    \/ \E e \in DOMAIN workers : WorkerRead(e)
    \/ \E e \in DOMAIN workers : WorkerPanic(e)
    \/ \E e \in DOMAIN workers : WorkerSend(e)
    \/ \E e \in DOMAIN workers : WorkerDrain(e)
    \/ \E e \in DOMAIN workers : WorkerDrainSend(e)
    \/ \E e \in DOMAIN workers : WorkerWait(e)

(***************************************************************************)
(* A library caller of execute_async: it may receive chunks, drop the      *)
(* receiver at any time, and await the handle.                             *)
(***************************************************************************)
BurstChunks == 66   \* chunks a PTY yields at most in SpecWsBurst and SpecAsync

Cur == Len(workers)

Frame(type, frame, chunk, code) ==
    [type |-> type, frame |-> frame, chunk |-> chunk, code |-> code]

InitAsync ==
    /\ wsKind = "lib"
    /\ wsPc = "call"
    /\ connected = TRUE
    /\ inbox = << >>
    /\ nFrames = 0
    /\ frameBudget = 0
    /\ taken = << >>
    /\ sent = << >>
    /\ workers = << >>
    /\ ptyTotal = 0
    /\ chunkBudget = BurstChunks
    /\ InitHttpIdle
    /\ InitStIdle
    /\ InitExtIdle

\* executor.execute_async(&cmd).await
LibCall ==
    /\ wsKind = "lib" /\ wsPc = "call"
    /\ workers' = Append(workers, NewRun(0))
    /\ wsPc' = "hold"
    /\ UNCHANGED <<wsKind, connected, inbox, nFrames, frameBudget, taken, sent,
                   ptyTotal, chunkBudget, httpVars, stVars, extVars>>

\* rx.recv().await yields the oldest chunk
LibRecv ==
    /\ wsKind = "lib" /\ wsPc = "hold"
    /\ workers[Cur].rxAlive /\ workers[Cur].chan # << >>
    /\ sent' = Append(sent, Frame("output", 0, Head(workers[Cur].chan), None))
    /\ workers' = [workers EXCEPT ![Cur] = [@ EXCEPT !.chan = Tail(@)]]
    /\ UNCHANGED <<wsKind, wsPc, connected, inbox, nFrames, frameBudget, taken,
                   ptyTotal, chunkBudget, httpVars, stVars, extVars>>

\* drop(rx): the channel closes and what it holds is discarded
drop_rx(w) == [w EXCEPT !.rxAlive = FALSE, !.chan = << >>]

LibDropRx ==
    /\ wsKind = "lib" /\ wsPc = "hold"
    /\ workers[Cur].rxAlive
    /\ LET w == workers[Cur]
       IN  workers' = [workers EXCEPT ![Cur] =
                         [drop_rx(w) EXCEPT
                            !.rxDropped =
                                IF ~Running(w) THEN "finished"
                                ELSE IF w.pc \in {"send", "drainsend"}
                                        /\ Len(w.chan) = ChannelCapacity
                                     THEN "blocked" ELSE "running"]]
    /\ UNCHANGED <<wsKind, wsPc, connected, inbox, nFrames, frameBudget, taken,
                   sent, ptyTotal, chunkBudget, httpVars, stVars, extVars>>

\* handle.await resolves once the closure has returned
LibAwait ==
    /\ wsKind = "lib" /\ wsPc = "hold"
    /\ ~Running(workers[Cur])
    /\ wsPc' = "joined"
    /\ workers' = [workers EXCEPT ![Cur] = drop_rx(@)]
    /\ UNCHANGED <<wsKind, connected, inbox, nFrames, frameBudget, taken, sent,
                   ptyTotal, chunkBudget, httpVars, stVars, extVars>>

NextAsync ==
    \/ LibCall
    \/ LibRecv
    \/ LibDropRx
    \/ LibAwait
    \/ WorkerStep

SpecAsync == InitAsync /\ [][NextAsync]_vars

(***************************************************************************)
(* api/websocket.rs: handle_socket (wsKind "scoped", on session WsSession) *)
(* and handle_oneshot_socket (wsKind "oneshot")                            *)
(***************************************************************************)
MaxFrames == 2      \* frames the client sends in SpecWs
MaxChunks == 3      \* chunks the PTYs yield in SpecWs

WsSession == 1

FrameKinds == {"execute", "ping", "other", "bad", "proto_ping", "binary", "close"}

\* sink.send(..).await: the frame reaches the client only while it is connected
sink_send(log, f) == IF connected THEN Append(log, f) ELSE log

InFlight == Cardinality({e \in DOMAIN workers : Running(workers[e])})

\* the client sends a frame
ClientSend(kind) ==
    /\ wsKind \in {"scoped", "oneshot"}
    /\ connected /\ wsPc # "closed"
    /\ nFrames < frameBudget
    /\ nFrames' = nFrames + 1
    /\ inbox' = Append(inbox, [n |-> nFrames + 1, kind |-> kind, during |-> InFlight])
    /\ UNCHANGED <<wsKind, wsPc, connected, frameBudget, taken, sent, workers,
                   ptyTotal, chunkBudget, httpVars, stVars, extVars>>

\* the client goes away: from now on sink.send fails and the stream ends
ClientDisconnect ==
    /\ wsKind \in {"scoped", "oneshot"}
    /\ connected
    /\ connected' = FALSE
    /\ UNCHANGED <<wsKind, wsPc, inbox, nFrames, frameBudget, taken, sent,
                   workers, ptyTotal, chunkBudget, httpVars, stVars, extVars>>

\* handle_socket: "verify session exists", else one SESSION_NOT_FOUND frame
WsCheck ==
    /\ wsKind = "scoped" /\ wsPc = "check"
    /\ IF store_contains(sessions, WsSession)
       THEN /\ wsPc' = "recv"
            /\ UNCHANGED sent
       ELSE /\ wsPc' = "closed"
            /\ sent' = sink_send(sent, Frame("error", 0, 0, "SESSION_NOT_FOUND"))
    /\ UNCHANGED <<wsKind, connected, inbox, nFrames, frameBudget, taken,
                   workers, ptyTotal, chunkBudget, httpVars, stVars, extVars>>

\* where the handler goes once execute_async has returned: on to the next frame
after_execute_async_detached == "recv"

\* where the handler goes once execute_async has returned: into the rx.recv loop
after_execute_async == "stream"

\* stream.next().await yields a frame: the match on the message and on WsMessage
WsRecv ==
    /\ wsKind \in {"scoped", "oneshot"} /\ wsPc = "recv"
    /\ inbox # << >>
    /\ LET f == Head(inbox)
       IN  /\ inbox' = Tail(inbox)
           /\ taken' = Append(taken, [n |-> f.n, kind |-> f.kind,
                                      during |-> f.during, inFlight |-> InFlight])
           /\ CASE f.kind = "close" ->
                     /\ wsPc' = "closed"
                     /\ UNCHANGED <<sent, workers>>
                [] f.kind = "proto_ping" ->
                     /\ sent' = sink_send(sent, Frame("proto_pong", f.n, 0, None))
                     /\ UNCHANGED <<wsPc, workers>>
                [] f.kind = "bad" ->
                     /\ sent' = sink_send(sent, Frame("error", f.n, 0, "PARSE_ERROR"))
                     /\ UNCHANGED <<wsPc, workers>>
                [] f.kind = "ping" ->
                     /\ sent' = sink_send(sent, Frame("pong", f.n, 0, None))
                     /\ UNCHANGED <<wsPc, workers>>
                [] f.kind = "execute" ->
                     /\ workers' = Append(workers, NewRun(f.n))
                     /\ wsPc' = after_execute_async
                     /\ UNCHANGED sent
                [] OTHER ->
                     UNCHANGED <<wsPc, sent, workers>>
    /\ UNCHANGED <<wsKind, connected, nFrames, frameBudget, ptyTotal,
                   chunkBudget, httpVars, stVars, extVars>>

\* stream.next().await yields None or Err: the loop ends and the handler returns
WsStreamEnd ==
    /\ wsKind \in {"scoped", "oneshot"} /\ wsPc = "recv"
    /\ inbox = << >> /\ ~connected
    /\ wsPc' = "closed"
    /\ UNCHANGED <<wsKind, connected, inbox, nFrames, frameBudget, taken, sent,
                   workers, ptyTotal, chunkBudget, httpVars, stVars, extVars>>

\* the run once a send of an output frame has failed: `break` leaves the loop,
\* rx stays bound until the end of the match arm
on_send_failed(w) == w

\* `while let Some(chunk) = rx.recv().await`: forward the chunk as an output
\* frame; a failed send breaks out of the loop
WsForward ==
    /\ wsKind \in {"scoped", "oneshot"} /\ wsPc = "stream"
    /\ workers[Cur].chan # << >>
    /\ LET w == workers[Cur]
           popped == [w EXCEPT !.chan = Tail(@)]
       IN  IF connected
           THEN /\ sent' = Append(sent, Frame("output", w.frame, Head(w.chan), None))
                /\ workers' = [workers EXCEPT ![Cur] = popped]
                /\ UNCHANGED wsPc
           ELSE /\ workers' = [workers EXCEPT ![Cur] = on_send_failed(popped)]
                /\ wsPc' = "await"
                /\ UNCHANGED sent
    /\ UNCHANGED <<wsKind, connected, inbox, nFrames, frameBudget, taken,
                   ptyTotal, chunkBudget, httpVars, stVars, extVars>>

\* rx.recv().await yields None: the channel is empty and tx was dropped
WsRecvNone ==
    /\ wsKind \in {"scoped", "oneshot"} /\ wsPc = "stream"
    /\ workers[Cur].chan = << >> /\ ~Running(workers[Cur])
    /\ wsPc' = "await"
    /\ UNCHANGED <<wsKind, connected, inbox, nFrames, frameBudget, taken, sent,
                   workers, ptyTotal, chunkBudget, httpVars, stVars, extVars>>

\* the frames the three arms of `match handle.await` send
terminal_frames(w) ==
    CASE w.result.kind = "ok"    -> << Frame("result", w.frame, 0, None) >>
      [] w.result.kind = "panic" -> << Frame("error", w.frame, 0, "TASK_ERROR") >>
      [] OTHER                   -> << Frame("error", w.frame, 0, "EXECUTION_ERROR") >>

\* where the handler goes after the error arms: out of the loop
after_terminal_close_on_error(w) == IF w.result.kind = "ok" THEN "recv" ELSE "closed"

\* where the handler goes after any arm of `match handle.await`: the next frame
after_terminal(w) == "recv"

\* handle.await resolves; Ok(Ok(result)): the scoped handler records the
\* execution, then the result frame; Ok(Err(e)) / Err(e): one error frame; the
\* match arm ends and rx is dropped
WsAwait ==
    /\ wsKind \in {"scoped", "oneshot"} /\ wsPc = "await"
    /\ ~Running(workers[Cur])
    /\ LET w == workers[Cur]
       IN  /\ sessions' =
                 IF wsKind = "scoped" /\ w.result.kind = "ok"
                 THEN store_update(sessions, WsSession,
                        [x \in Stored(sessions) |->
                             record_execution(x, w.frame, w.result.exit_code)]).map
                 ELSE sessions
           /\ sent' = IF connected THEN sent \o terminal_frames(w) ELSE sent
           /\ workers' = [workers EXCEPT ![Cur] = drop_rx(@)]
           /\ wsPc' = after_terminal(w)
    /\ UNCHANGED <<wsKind, connected, inbox, nFrames, frameBudget, taken,
                   ptyTotal, chunkBudget, counter, now, reqs, stVars, extVars>>

\* the socket is upgraded; for the scoped route the session may or may not exist
InitWsWith(frames, chunks) ==
    /\ wsKind \in {"scoped", "oneshot"}
    /\ wsPc = IF wsKind = "scoped" THEN "check" ELSE "recv"
    /\ connected = TRUE
    /\ inbox = << >>
    /\ nFrames = 0
    /\ frameBudget = frames
    /\ taken = << >>
    /\ sent = << >>
    /\ workers = << >>
    /\ ptyTotal = 0
    /\ chunkBudget = chunks
    /\ sessions \in { << >>, <<Session_new(0)>> }
    /\ counter = Len(sessions) + 1
    /\ now = 0
    /\ reqs = << >>
    /\ InitStIdle
    /\ InitExtIdle

InitWs == InitWsWith(MaxFrames, MaxChunks)

NextWs ==
    \/ \E kind \in FrameKinds : ClientSend(kind)
    \/ ClientDisconnect
    \/ WsCheck
    \/ WsRecv
    \/ WsStreamEnd
    \/ WsForward
    \/ WsRecvNone
    \/ WsAwait
    \/ WorkerStep

SpecWs == InitWs /\ [][NextWs]_vars

\* one frame from the client, and a command with a long output
InitWsBurst == InitWsWith(1, BurstChunks)

SpecWsBurst == InitWsBurst /\ [][NextWs]_vars

(***************************************************************************)
(* Claims about the session lifecycle (Spec, SpecState)                    *)
(***************************************************************************)
Creates  == {k \in DOMAIN reqs : reqs[k].kind = "create"}
Deletes  == {k \in DOMAIN reqs : reqs[k].kind = "delete"}
Executes == {k \in DOMAIN reqs : reqs[k].kind = "execute"}

\* C1: when create_session has answered 201 the new session's stored state is
\* Idle, so an execute on it is not refused with 409 INVALID_STATE for being
\* in state Created.
C1_CreatedSessionIsIdle ==
    /\ \A k \in Creates : reqs[k].resp = 201 => reqs[k].seen = "Idle"
    /\ \A k \in Executes : reqs[k].resp = 409 => reqs[k].seen # "Created"

\* C2: transition_to(target) returns Ok and sets the state to target exactly for
\* the five legal pairs; for the other eleven pairs it returns
\* InvalidStateTransition and leaves the state unchanged; hence no sequence of
\* calls leaves Terminated or re-enters Created.
LegalPairs ==
    { <<"Created", "Active">>, <<"Active", "Idle">>, <<"Active", "Terminated">>,
      <<"Idle", "Active">>, <<"Idle", "Terminated">> }

C2_TransitionTable ==
    /\ \A i \in DOMAIN stLog :
         LET e == stLog[i]
         IN  /\ e.ok <=> <<e.from, e.to>> \in LegalPairs
             /\ e.ok => e.after = e.to
             /\ ~e.ok => e.after = e.from
    /\ \A i, j \in DOMAIN stLog :
         i < j =>
           /\ stLog[i].from = "Terminated" => stLog[j].after = "Terminated"
           /\ stLog[i].after # "Created" => stLog[j].after # "Created"

\* a legal step, a step into Terminated and a refused step out of Terminated
C2_Witness ==
    /\ Len(stLog) = 3
    /\ stLog[1].from = "Created" /\ stLog[1].to = "Active" /\ stLog[1].ok
    /\ stLog[2].to = "Terminated" /\ stLog[2].ok
    /\ stLog[3].to = "Active" /\ ~stLog[3].ok /\ st = "Terminated"

\* C3: no command is ever started for a session whose stored state is
\* Terminated, in any interleaving of execute and delete requests.
C3_NoCommandOnTerminated ==
    \A k \in Executes : reqs[k].started # "Terminated"

\* C4: every session removed by delete_session is in state Terminated when it
\* is removed from the registry, whatever its state when the request arrived.
C4_RemovedIsTerminated ==
    \A k \in Deletes :
        (reqs[k].pc = "done" /\ reqs[k].removed \in SessionState)
            => reqs[k].removed = "Terminated"

\* C5: execute_in_session on an executable session that no delete touches
\* meanwhile leaves it Active right after "mark active" and Idle with a fresh
\* last_activity right after "mark idle", whatever the outcome of the command;
\* and when the HTTP execute answers 200 the context's last command and last
\* exit code are those of the result.
C5_ExecuteInSession ==
    \A k \in Executes :
        LET r == reqs[k]
        IN  /\ r.marked \in SessionState \ {"Terminated"} => r.marked = "Active"
            /\ r.idled \in SessionState \ {"Terminated"} =>
                  /\ r.idled = "Idle"
                  /\ r.idledAct = r.idledAt
            /\ (r.resp = 200 /\ r.ctxCount # -1) =>
                  /\ r.ctxCmd = Some(r.cmd)
                  /\ r.ctxExit = r.result.exit_code

\* an execute whose command ended in an error after the clock moved, left Idle,
\* and an execute answered 200 with a timed-out result recorded
C5_Witness ==
    /\ \E k \in Executes :
         /\ reqs[k].result.kind = "err" /\ reqs[k].started = "Active"
         /\ reqs[k].idled = "Idle" /\ reqs[k].idledAt = 1
    /\ \E k \in Executes :
         /\ reqs[k].resp = 200 /\ reqs[k].result.timed_out
         /\ reqs[k].ctxCount = 1 /\ reqs[k].marked = "Active"

(***************************************************************************)
(* Claims about execute_async and the WebSocket handlers                   *)
(* (SpecWs, SpecWsBurst, SpecAsync)                                        *)
(***************************************************************************)
Blocked(w) == w.pc \in {"send", "drainsend"} /\ ~blocking_send_ready(w)

\* C6: once a send of an output frame has failed the handler stops forwarding
\* and the worker still runs to completion however many chunks the command
\* produces: the worker is never blocked in blocking_send on a full channel
\* while the handler is parked on handle.await.
C6_WorkerNeverStuck ==
    ~(wsPc = "await" /\ workers # << >> /\ Blocked(workers[Cur]))

\* C7: with the receiver dropped the worker neither blocks nor aborts: later
\* sends put nothing in the channel, blocking_send returns at once, and the
\* handle resolves to a result whose raw output is everything read from the
\* PTY (or to an error of the PTY itself, never one of the channel).
C7_DroppedReceiver ==
    \A e \in DOMAIN workers :
        LET w == workers[e]
        IN  /\ ~w.rxAlive => (w.chan = << >> /\ ~Blocked(w))
            /\ ~Running(w) =>
                  \/ w.result.kind = "ok" /\ w.result.raw = w.read
                  \/ w.result.kind \in {"Pty", "Io", "panic"}

\* the receiver was dropped under a worker blocked on a full channel, nothing
\* was received, and the run ended with a complete result of more chunks than
\* the channel holds
C7_Witness ==
    /\ workers # << >>
    /\ workers[1].rxDropped = "blocked"
    /\ ~Running(workers[1]) /\ workers[1].result.kind = "ok"
    /\ Len(workers[1].result.raw) > ChannelCapacity
    /\ sent = << >>

IsTerminal(f) ==
    \/ f.type = "result"
    \/ f.type = "error" /\ f.code \in {"EXECUTION_ERROR", "TASK_ERROR"}

Outputs(n) == SelectSeq(sent, LAMBDA f : f.type = "output" /\ f.frame = n)

Terminals(n) == SelectSeq(sent, LAMBDA f : IsTerminal(f) /\ f.frame = n)

\* C8: the output frames of an execute are the chunks its worker read, in the
\* order it read them, and no output frame of an execute follows its result
\* (or error) frame.
C8_OutputOrder ==
    \A e \in DOMAIN workers :
        LET w == workers[e]
            outs == Outputs(w.frame)
        IN  /\ Len(outs) <= Len(w.read)
            /\ \A i \in DOMAIN outs : outs[i].chunk = w.read[i]
            /\ \A i, j \in DOMAIN sent :
                 (IsTerminal(sent[i]) /\ sent[i].frame = w.frame
                    /\ sent[j].type = "output" /\ sent[j].frame = w.frame) => j < i

\* an execute whose chunks queued up behind each other, then its result
C8_Witness ==
    \E e \in DOMAIN workers :
        /\ Len(Outputs(workers[e].frame)) = MaxChunks
        /\ Len(Terminals(workers[e].frame)) = 1
        /\ sent[Len(sent)].type = "result"

\* C9: at most one execute is in flight on a socket; a frame is taken from the
\* stream only when no execute is running, frames are taken in arrival order,
\* and the responses follow the order of the frames they answer.
C9_OneExecuteInFlight ==
    /\ InFlight <= 1
    /\ \A i \in DOMAIN taken : taken[i].n = i /\ taken[i].inFlight = 0
    /\ \A i, j \in DOMAIN sent : i < j => sent[i].frame <= sent[j].frame

\* a ping that arrived while an execute was running, answered after its result
C9_Witness ==
    /\ Len(taken) = 2
    /\ taken[1].kind = "execute" /\ taken[2].kind = "ping" /\ taken[2].during = 1
    /\ Len(sent) >= 2
    /\ sent[Len(sent)].type = "pong"
    /\ sent[Len(sent) - 1].type = "result"

DEFAULT_TIMEOUT == 30   \* seconds; one clock tick is one second

MaxElapsed == 32        \* the clock stops here
MaxOutput  == 2         \* chunks the child writes at most

Paths == {"rest_oneshot", "rest_session", "ws_scoped", "ws_oneshot"}

\* Command::timeout as the requests can set it
Timeouts == {Nothing, Some(0), Some(2)}

\* portable_pty::ExitStatus::exit_code(), codes on which `as i32` is the identity
ExitStatuses == {0, 1, 255}

\* command.timeout.unwrap_or(DEFAULT_TIMEOUT)
timeout_duration(t) == IF t = Nothing THEN DEFAULT_TIMEOUT ELSE CHOOSE x \in t : TRUE

\* the thread the PTY is driven from: the REST handlers call execute_sync (one
\* of them through execute_in_session) inline from their async fn, the
\* WebSocket handlers call execute_async, whose closure runs under spawn_blocking
pty_thread(path) ==
    IF path \in {"ws_scoped", "ws_oneshot"} THEN "blocking" ELSE "runtime"

\* exit_status.map(|s| if s.success() { 0 } else { s.exit_code() as i32 }),
\* with the code of a failed child dropped
exit_code_of_success_only(status) ==
    IF status = Nothing THEN Nothing
    ELSE LET c == CHOOSE x \in status : TRUE
         IN  IF c = 0 THEN Some(0) ELSE Nothing

\* exit_status.map(|s| if s.success() { 0 } else { s.exit_code() as i32 })
exit_code_of(status) ==
    IF status = Nothing THEN Nothing
    ELSE LET c == CHOOSE x \in status : TRUE
         IN  IF c = 0 THEN Some(0) ELSE Some(c)

NoExecResult ==
    [kind |-> "none", exit_code |-> Nothing, timed_out |-> FALSE, duration |-> 0, raw |-> 0]

\* ExecutionResult::timeout
ExecutionResult_timeout(raw, duration) ==
    [kind |-> "ok", exit_code |-> Nothing, timed_out |-> TRUE,
     duration |-> duration, raw |-> raw]

\* ExecutionResult::new(..) followed by with_exit_code when there is a code
ExecutionResult_new(raw, duration, exit_code) ==
    [kind |-> "ok", exit_code |-> exit_code, timed_out |-> FALSE,
     duration |-> duration, raw |-> raw]

ExecError(kind) ==
    [kind |-> kind, exit_code |-> Nothing, timed_out |-> FALSE, duration |-> 0, raw |-> 0]

NoResponse == [kind |-> "none", success |-> FALSE, exit_code |-> Nothing, timed_out |-> FALSE]

\* success computed from timed_out alone
from_result_not_timed_out(r) ==
    [kind |-> "http", success |-> ~r.timed_out,
     exit_code |-> r.exit_code, timed_out |-> r.timed_out]

\* ExecuteCommandResponse::from_result
from_result(r) ==
    [kind |-> "http",
     success |-> (IF r.exit_code = Nothing THEN FALSE ELSE r.exit_code = Some(0))
                    /\ ~r.timed_out,
     exit_code |-> r.exit_code, timed_out |-> r.timed_out]

\* WsMessage::Result built in the Ok(Ok(result)) arm
ws_result(r) ==
    [kind |-> "ws",
     success |-> (IF r.exit_code = Nothing THEN FALSE ELSE r.exit_code = Some(0))
                    /\ ~r.timed_out,
     exit_code |-> r.exit_code, timed_out |-> r.timed_out]

InitExec ==
    /\ \E path \in Paths, t \in Timeouts :
         run = [pc |-> "handler", path |-> path, thread |-> "runtime",
                timeout |-> timeout_duration(t),
                elapsed |-> 0,          \* start.elapsed()
                loopEnd |-> 0,          \* `duration`, taken when the loop is left
                child |-> "none",       \* "none", "running", "exited"
                status |-> Nothing,     \* what wait() yields: Some(code), or Nothing for Err
                written |-> 0,          \* chunks the child has written
                avail |-> 0,            \* chunks waiting in the PTY
                nread |-> 0,            \* chunks in raw_output
                ioOn |-> Nothing,       \* threads that read or wrote the PTY
                result |-> NoExecResult,
                response |-> NoResponse]
    /\ reg = [pc |-> "off"]
    /\ rl = [pc |-> "off"]
    /\ gate = [pc |-> "off"]
    /\ pf = [pc |-> "off"]
    /\ InitHttpIdle
    /\ InitWsIdle
    /\ InitStIdle

\* PTY i/o happens on the thread the run is on
Io(r) == [r EXCEPT !.ioOn = @ \cup {r.thread}]

ExecFrame == UNCHANGED <<reg, rl, gate, pf, httpVars, wsVars, stVars>>

\* the handler starts the run: execute_sync inline, or execute_async's spawn_blocking
ExecDispatch ==
    /\ run.pc = "handler"
    /\ run' = [run EXCEPT !.pc = "spawn", !.thread = pty_thread(run.path)]
    /\ ExecFrame

\* start = Instant::now(); spawn_shell, take_writer, take_reader, write_all, flush
ExecSpawn ==
    /\ run.pc = "spawn"
    /\ \/ run' = [Io(run) EXCEPT !.pc = "check", !.child = "running"]
       \/ \E e \in {"Pty", "Io"} :
            run' = [run EXCEPT !.pc = "done", !.result = ExecError(e)]
    /\ ExecFrame

\* top of the loop: if start.elapsed() > timeout_duration { return Ok(timeout(..)) }
ExecCheck ==
    /\ run.pc = "check"
    /\ run' = IF run.elapsed > run.timeout
              THEN [run EXCEPT !.pc = "done",
                               !.result = ExecutionResult_timeout(run.nread, run.elapsed)]
              ELSE [run EXCEPT !.pc = "read"]
    /\ ExecFrame

\* reader.read(&mut buf) on the blocking reader of the PTY master: returns a
\* chunk when there is one, Ok(0) or Err once the child is gone and the PTY is
\* drained, and otherwise does not return
ExecRead ==
    /\ run.pc = "read"
    /\ \/ /\ run.avail > 0
          /\ run' = [Io(run) EXCEPT !.avail = @ - 1, !.nread = @ + 1, !.pc = "trywait"]
       \/ /\ run.avail = 0 /\ run.child = "exited"
          /\ \/ run' = [Io(run) EXCEPT !.pc = "wait", !.loopEnd = run.elapsed]
             \/ run' = [Io(run) EXCEPT !.pc = "done", !.result = ExecError("Io")]
    /\ ExecFrame

\* if let Ok(Some(_)) = shell.try_wait()
ExecTryWait ==
    /\ run.pc = "trywait"
    /\ run' = IF run.child = "exited" /\ run.status # Nothing
              THEN [run EXCEPT !.pc = "drain"]
              ELSE [run EXCEPT !.pc = "check"]
    /\ ExecFrame

\* while let Ok(n) = reader.read(&mut buf) { if n == 0 { break } .. } break
ExecDrain ==
    /\ run.pc = "drain"
    /\ run' = IF run.avail > 0
              THEN [Io(run) EXCEPT !.avail = @ - 1, !.nread = @ + 1]
              ELSE [Io(run) EXCEPT !.pc = "wait", !.loopEnd = run.elapsed]
    /\ ExecFrame

\* shell.wait().ok(), the exit code, ExecutionResult::new(..).with_exit_code(..)
ExecWait ==
    /\ run.pc = "wait"
    /\ run.child = "exited"
    /\ run' = [run EXCEPT !.pc = "done",
                          !.result = ExecutionResult_new(run.nread, run.loopEnd,
                                                         exit_code_of(run.status))]
    /\ ExecFrame

\* the handler turns the outcome into its response or frame
ExecRespond ==
    /\ run.pc = "done"
    /\ run' = [run EXCEPT
                 !.pc = "answered",
                 !.response =
                     IF run.result.kind # "ok"
                     THEN [NoResponse EXCEPT !.kind = "error"]
                     ELSE IF run.path \in {"ws_scoped", "ws_oneshot"}
                          THEN ws_result(run.result)
                          ELSE from_result(run.result)]
    /\ ExecFrame

ExecStep ==
    \/ ExecDispatch
    \/ ExecSpawn
    \/ ExecCheck
    \/ ExecRead
    \/ ExecTryWait
    \/ ExecDrain
    \/ ExecWait
    \/ ExecRespond

\* the child (the interactive shell and what it runs) writes to the PTY
ChildWrite ==
    /\ run.pc \notin {"off", "handler"}
    /\ run.child = "running"
    /\ run.written < MaxOutput
    /\ run' = [run EXCEPT !.written = @ + 1, !.avail = @ + 1]
    /\ ExecFrame

\* the child exits; its status may or may not be obtainable
ChildExit ==
    /\ run.pc \notin {"off", "handler"}
    /\ run.child = "running"
    /\ \E status \in {Nothing} \cup {Some(c) : c \in ExitStatuses} :
         run' = [run EXCEPT !.child = "exited", !.status = status]
    /\ ExecFrame

\* a second passes while the run is under way
ClockTick ==
    /\ run.pc \in {"check", "read", "trywait", "drain", "wait"}
    /\ run.elapsed < MaxElapsed
    /\ run' = [run EXCEPT !.elapsed = @ + 1]
    /\ ExecFrame

NextExec ==
    \/ ExecStep
    \/ ChildWrite
    \/ ChildExit
    \/ ClockTick

SpecExec == InitExec /\ [][NextExec]_vars

\* the executor's thread and the clock keep going; the child owes nothing
SpecExecFair == SpecExec /\ WF_vars(ExecStep) /\ WF_vars(ClockTick)

(***************************************************************************)
(* Claims about the executor's run (SpecExec, SpecExecFair)                *)
(***************************************************************************)
\* C11: the PTY is read and written only on blocking-pool workers, never on a
\* thread of the async runtime, on every execution path (REST one-shot, REST
\* session, both WebSocket executes).
C11_PtyOnlyOnBlockingPool == run.ioOn \subseteq {"blocking"}

\* C12: every run terminates: whatever the child does, the run returns (with
\* timed_out once the timeout has elapsed if the child neither exits nor
\* closes the PTY).
C12_RunTerminates == <>(run.pc \in {"done", "answered"})

\* C13: in every ExecutionResult, timed_out implies no exit code and a duration
\* of at least the timeout; the exit code is absent only if the run timed out
\* or the child's status could not be obtained; a successful child gives 0.
C13_ResultShape ==
    run.result.kind = "ok" =>
        /\ run.result.timed_out =>
              (run.result.exit_code = Nothing /\ run.result.duration >= run.timeout)
        /\ run.result.exit_code = Nothing =>
              (run.result.timed_out \/ run.status = Nothing)
        /\ (~run.result.timed_out /\ run.status = Some(0)) =>
              run.result.exit_code = Some(0)

\* a run with no timeout given that timed out with output collected, the child
\* having failed meanwhile
C13_Witness ==
    /\ run.result.kind = "ok" /\ run.result.timed_out
    /\ run.timeout = DEFAULT_TIMEOUT
    /\ run.result.raw = MaxOutput
    /\ run.status = Some(1)

\* C14: in every HTTP execute response and WebSocket result frame, success is
\* true exactly when the exit code is present and 0 and the run did not time
\* out.
C14_SuccessFlag ==
    run.response.kind \in {"http", "ws"} =>
        /\ run.response.exit_code = run.result.exit_code
        /\ run.response.timed_out = run.result.timed_out
        /\ run.response.success <=>
              (run.result.exit_code = Some(0) /\ ~run.result.timed_out)

\* an HTTP response for a child that exited with 255
C14_Witness ==
    /\ run.response.kind = "http"
    /\ run.response.exit_code = Some(255)
    /\ ~run.response.success /\ ~run.response.timed_out

(***************************************************************************)
(* session/store.rs, session/id.rs: the registry under concurrent callers  *)
(* SpecStore: every public operation of SessionStore, called from          *)
(* MaxThreads threads; create is two steps (SessionId::new, then the       *)
(* insert under the write lock), the others one step under the lock; a     *)
(* closure that panics under the write lock poisons it                     *)
(***************************************************************************)
MaxThreads == 2     \* concurrent callers of the registry
MaxCreates == 3     \* create calls in one behaviour

Threads == 1 .. MaxThreads

IdArgs == 1 .. MaxCreates

\* COUNTER read without being advanced
SessionId_new_load(c) == [id |-> c, next |-> c]

\* SessionId::new: COUNTER.fetch_add(1, Relaxed), one atomic step
SessionId_new(c) == [id |-> c, next |-> c + 1]

\* SessionStore::count: self.sessions.read().map(|s| s.len()).unwrap_or(0)
store_count(S, poisoned) == IF poisoned THEN 0 ELSE Cardinality(DOMAIN S)

\* SessionStore::list_ids
store_list_ids(S) == DOMAIN S

\* SessionStore::remove_matching: retain(|_, s| !predicate(s))
store_remove_matching(S, pred) ==
    [i \in {j \in DOMAIN S : S[j].state \notin pred} |-> S[i]]

\* the outcome of a call: ret is "ok", "LockPoisoned", "SessionNotFound" or
\* "panic"; n, found and ids carry the value returned
Ret(op, id, ret, n, found, ids) ==
    [op |-> op, id |-> id, ret |-> ret, n |-> n, found |-> found, ids |-> ids,
     poisoned |-> reg.poisoned]     \* the lock was poisoned when the call was made

NoRet == [op |-> "none", id |-> 0, ret |-> "ok", n |-> -1, found |-> FALSE,
          ids |-> {}, poisoned |-> FALSE]

InitStore ==
    /\ sessions = << >>
    /\ counter = 1
    /\ now = 0
    /\ reqs = << >>
    /\ reg = [pc |-> "on",
              poisoned |-> FALSE,
              thr |-> [t \in Threads |-> [pc |-> "idle", id |-> 0]],
              returned |-> << >>,   \* the ids create has returned, in order
              overlap |-> FALSE,    \* two creates were under way at once
              nCreated |-> 0,       \* create calls that returned an id
              nRemoved |-> 0,       \* sessions removed
              removed |-> {},       \* ids remove() returned a session for
              last |-> NoRet]       \* the latest completed call
    /\ run = [pc |-> "off"]
    /\ rl = [pc |-> "off"]
    /\ gate = [pc |-> "off"]
    /\ pf = [pc |-> "off"]
    /\ InitWsIdle
    /\ InitStIdle

StoreFrame == UNCHANGED <<now, reqs, run, rl, gate, pf, wsVars, stVars>>

Idle(t) == reg.pc = "on" /\ reg.thr[t].pc = "idle"

\* create, first half: let id = SessionId::new(); Session::new(id, config)
RegCreateId(t) ==
    /\ Idle(t)
    /\ counter <= MaxCreates
    /\ LET n == SessionId_new(counter)
       IN  /\ counter' = n.next
           /\ reg' = [reg EXCEPT
                        !.thr[t] = [pc |-> "insert", id |-> n.id],
                        !.overlap = @ \/ \E u \in Threads : reg.thr[u].pc = "insert"]
    /\ UNCHANGED sessions
    /\ StoreFrame

\* create, second half: write lock, sessions.insert(id, session), Ok(id)
RegCreateInsert(t) ==
    /\ reg.pc = "on" /\ reg.thr[t].pc = "insert"
    /\ LET id == reg.thr[t].id
       IN  IF reg.poisoned
           THEN /\ reg' = [reg EXCEPT
                             !.thr[t] = [pc |-> "idle", id |-> 0],
                             !.last = Ret("create", id, "LockPoisoned", -1, FALSE, {})]
                /\ UNCHANGED sessions
           ELSE /\ sessions' = store_create(sessions, id, now)
                /\ reg' = [reg EXCEPT
                             !.thr[t] = [pc |-> "idle", id |-> 0],
                             !.returned = Append(@, id),
                             !.nCreated = @ + 1,
                             !.last = Ret("create", id, "ok", -1, FALSE, {})]
    /\ UNCHANGED counter
    /\ StoreFrame

\* get(id) and contains(id): read lock
RegRead(t, op, id) ==
    /\ Idle(t)
    /\ reg' = [reg EXCEPT !.last =
                 IF reg.poisoned
                 THEN Ret(op, id, "LockPoisoned", -1, FALSE, {})
                 ELSE Ret(op, id, "ok", -1, store_contains(sessions, id), {})]
    /\ UNCHANGED <<sessions, counter>>
    /\ StoreFrame

\* update(id, f): write lock, get_mut, f(session); f may panic with the lock held
RegUpdate(t, id, panics) ==
    /\ Idle(t)
    /\ LET u == store_update(sessions, id, [s \in Stored(sessions) |-> touch(s, now)])
       IN  IF reg.poisoned
           THEN /\ reg' = [reg EXCEPT !.last = Ret("update", id, "LockPoisoned", -1, FALSE, {})]
                /\ UNCHANGED sessions
           ELSE IF ~u.ok
           THEN /\ reg' = [reg EXCEPT !.last = Ret("update", id, "SessionNotFound", -1, FALSE, {})]
                /\ UNCHANGED sessions
           ELSE IF panics
           THEN /\ reg' = [reg EXCEPT !.poisoned = TRUE,
                                      !.last = Ret("update", id, "panic", -1, TRUE, {})]
                /\ UNCHANGED sessions
           ELSE /\ reg' = [reg EXCEPT !.last = Ret("update", id, "ok", -1, TRUE, {})]
                /\ sessions' = u.map
    /\ UNCHANGED counter
    /\ StoreFrame

\* remove(id): write lock, sessions.remove(id)
RegRemove(t, id) ==
    /\ Idle(t)
    /\ IF reg.poisoned
       THEN /\ reg' = [reg EXCEPT !.last = Ret("remove", id, "LockPoisoned", -1, FALSE, {})]
            /\ UNCHANGED sessions
       ELSE /\ sessions' = store_remove(sessions, id)
            /\ reg' = [reg EXCEPT
                         !.last = Ret("remove", id, "ok", -1, store_contains(sessions, id), {}),
                         !.nRemoved = IF store_contains(sessions, id) THEN @ + 1 ELSE @,
                         !.removed = IF store_contains(sessions, id) THEN @ \cup {id} ELSE @]
    /\ UNCHANGED counter
    /\ StoreFrame

\* count(): no Result, the length or 0
RegCount(t) ==
    /\ Idle(t)
    /\ reg' = [reg EXCEPT !.last =
                 Ret("count", 0, "ok", store_count(sessions, reg.poisoned), FALSE, {})]
    /\ UNCHANGED <<sessions, counter>>
    /\ StoreFrame

\* list_ids(): read lock
RegListIds(t) ==
    /\ Idle(t)
    /\ reg' = [reg EXCEPT !.last =
                 IF reg.poisoned
                 THEN Ret("list_ids", 0, "LockPoisoned", -1, FALSE, {})
                 ELSE Ret("list_ids", 0, "ok", -1, FALSE, store_list_ids(sessions))]
    /\ UNCHANGED <<sessions, counter>>
    /\ StoreFrame

\* remove_matching(predicate): write lock, retain; the predicate is given as
\* the set of states it accepts
RegRemoveMatching(t, pred) ==
    /\ Idle(t)
    /\ IF reg.poisoned
       THEN /\ reg' = [reg EXCEPT !.last =
                         Ret("remove_matching", 0, "LockPoisoned", -1, FALSE, {})]
            /\ UNCHANGED sessions
       ELSE LET kept == store_remove_matching(sessions, pred)
                gone == DOMAIN sessions \ DOMAIN kept
            IN  /\ sessions' = kept
                /\ reg' = [reg EXCEPT
                             !.last = Ret("remove_matching", 0, "ok",
                                          Cardinality(DOMAIN sessions) - Cardinality(DOMAIN kept),
                                          FALSE, {}),
                             !.nRemoved = @ + Cardinality(gone),
                             !.removed = @ \cup gone]
    /\ UNCHANGED counter
    /\ StoreFrame

NextStore ==
    \E t \in Threads :
        \/ RegCreateId(t)
        \/ RegCreateInsert(t)
        \/ \E id \in IdArgs : RegRead(t, "get", id)
        \/ \E id \in IdArgs : RegRead(t, "contains", id)
        \/ \E id \in IdArgs, panics \in BOOLEAN : RegUpdate(t, id, panics)
        \/ \E id \in IdArgs : RegRemove(t, id)
        \/ RegCount(t)
        \/ RegListIds(t)
        \/ \E pred \in {{}, {"Created"}} : RegRemoveMatching(t, pred)

SpecStore == InitStore /\ [][NextStore]_vars

(***************************************************************************)
(* Claims about the registry (SpecStore)                                   *)
(***************************************************************************)
\* C15: in every reachable state of the registry count() equals the number of
\* creates that returned an id minus the number of sessions removed, and an id
\* whose remove returned a session is absent ever after (get and contains do
\* not find it).
C15_CountAccounting ==
    /\ store_count(sessions, reg.poisoned) = reg.nCreated - reg.nRemoved
    /\ \A id \in reg.removed : ~store_contains(sessions, id)
    /\ (reg.last.op \in {"get", "contains"} /\ reg.last.id \in reg.removed)
          => ~reg.last.found

\* C16: the ids concurrent creates return are pairwise distinct, and creates
\* alone (nothing removed, lock intact) leave count() equal to their number
\* with every returned id present.
C16_DistinctIds ==
    /\ \A i, j \in DOMAIN reg.returned :
          i # j => reg.returned[i] # reg.returned[j]
    /\ (reg.nRemoved = 0 /\ ~reg.poisoned) =>
          /\ store_count(sessions, reg.poisoned) = Len(reg.returned)
          /\ \A i \in DOMAIN reg.returned : store_contains(sessions, reg.returned[i])

\* MaxCreates creates, two of them under way at once, all ids present
C16_Witness ==
    /\ reg.overlap
    /\ Len(reg.returned) = MaxCreates
    /\ reg.nRemoved = 0 /\ ~reg.poisoned
    /\ reg.last.op = "count" /\ reg.last.n = MaxCreates

\* C19: once the lock is poisoned every registry operation (create, get,
\* contains, update, remove, count, list_ids, remove_matching) reports
\* LockPoisoned instead of returning a value.
C19_PoisonedFails == reg.last.poisoned => reg.last.ret = "LockPoisoned"

(***************************************************************************)
(* Further claims about the HTTP handlers (Spec)                           *)
(***************************************************************************)
Recorded(id) ==
    {k \in Executes : reqs[k].id = id /\ reqs[k].ctxCount # -1}

\* C17: a session's execution counter equals the number of executions
\* recorded for it: each record_execution raised it by exactly one (the values
\* the recorders saw are 1, 2, .. without gap or repeat), nothing else changed
\* it, and every execute answered 200 on a session still registered was
\* recorded, also when executes on the session overlap.
C17_ExecutionCounter ==
    \A id \in DOMAIN sessions :
        /\ sessions[id].execution_count = Cardinality(Recorded(id))
        /\ {reqs[k].ctxCount : k \in Recorded(id)} = 1 .. Cardinality(Recorded(id))
        /\ \A k \in Executes :
             (reqs[k].id = id /\ reqs[k].resp = 200) => k \in Recorded(id)

\* two executes on one session, both recorded, one of them while the other
\* was still under way
C17_Witness ==
    \E id \in DOMAIN sessions :
        /\ sessions[id].execution_count = 2
        /\ \E k \in Recorded(id) : reqs[k].ctxWith = 1

\* C18: an execute on a session that does not exist is answered 404
\* SESSION_NOT_FOUND and one on a session that is not executable 409
\* INVALID_STATE, never 500, also when a concurrent delete terminates or removes
\* the session while the request is in progress.
C18_ErrorMapping ==
    \A k \in Executes :
        reqs[k].pc = "done" =>
            /\ reqs[k].err = "SessionNotFound" =>
                  (reqs[k].resp = 404 /\ reqs[k].code = "SESSION_NOT_FOUND")
            /\ reqs[k].err = "NotExecutable" =>
                  (reqs[k].resp = 409 /\ reqs[k].code = "INVALID_STATE")

(***************************************************************************)
(* SpecRl: the rate limiter.  One RateLimiter built from any small         *)
(* configuration; sources call check while the clock advances.  check      *)
(* holds the records lock from the lookup to its return, so a call is one  *)
(* step; the clock may advance while the call runs.  Nothing panics under  *)
(* the limiter's locks, so they are never poisoned here.                   *)
(***************************************************************************)
MaxSources == 2
MaxRequests == 2
MaxWindow == 2
MaxTracked == 2
MaxClock == 5
MaxChecks == 4
MaxCheckTime == 1

Sources == 1 .. MaxSources

RateLimitConfig ==
    [enabled : BOOLEAN,
     max_requests : 0 .. MaxRequests,
     window : 1 .. MaxWindow,
     max_tracked_ips : 1 .. MaxTracked]

saturating_sub(a, b) == IF b > a THEN 0 ELSE a - b

RequestRecord_new == << >>

\* clean_and_count keeping a timestamp that is exactly one window old
clean_and_count_inclusive(timestamps, t, window) ==
    LET cutoff == t - window
        Recent(x) == x >= cutoff
    IN  SelectSeq(timestamps, Recent)

\* the timestamps left after dropping those not after now - window
clean_and_count(timestamps, t, window) ==
    LET cutoff == t - window
        Recent(x) == x > cutoff
    IN  SelectSeq(timestamps, Recent)

record(timestamps, t) == Append(timestamps, t)

remaining_before_record(max_requests, current_count) ==
    max_requests - current_count

remaining(max_requests, current_count) ==
    max_requests - current_count - 1

retry_after(timestamps, t, window) ==
    IF timestamps = << >>
    THEN window
    ELSE saturating_sub(window, t - timestamps[1])

\* the records with recent activity: newest timestamp after now - 2 * window
retain_recent(records, t, window) ==
    LET cutoff == t - window * 2
        keep == {ip \in DOMAIN records :
                    /\ records[ip] # << >>
                    /\ records[ip][Len(records[ip])] > cutoff}
    IN  [ip \in keep |-> records[ip]]

\* the cap removing the entries last in the order by newest timestamp
newest_entries(records, max_tracked_ips) ==
    LET to_remove == Cardinality(DOMAIN records) - max_tracked_ips
        key(ip) == records[ip][Len(records[ip])]
    IN  {E \in SUBSET DOMAIN records :
            /\ Cardinality(E) = to_remove
            /\ \A e \in E : \A k \in DOMAIN records \ E : key(e) >= key(k)}

\* the sets of entries the cap may remove: the to_remove entries first in the
\* order by newest timestamp (entries with equal keys come in map order)
oldest_entries(records, max_tracked_ips) ==
    LET to_remove == Cardinality(DOMAIN records) - max_tracked_ips
        key(ip) == records[ip][Len(records[ip])]
    IN  {E \in SUBSET DOMAIN records :
            /\ Cardinality(E) = to_remove
            /\ \A e \in E : \A k \in DOMAIN records \ E : key(e) <= key(k)}

\* the limiter's two locks; poisoned is the set of those a thread panicked
\* under
Locks == {"records", "last_cleanup"}

\* the outcomes <<records, last_cleanup>> of maybe_cleanup at time t
maybe_cleanup(records, last_cleanup, poisoned, t, cfg) ==
    IF "last_cleanup" \in poisoned \/ ~(t - last_cleanup > cfg.window * 2)
    THEN {<<records, last_cleanup>>}
    ELSE IF "records" \in poisoned
    THEN {<<records, t>>}
    ELSE LET recent == retain_recent(records, t, cfg.window)
         IN  IF Cardinality(DOMAIN recent) > cfg.max_tracked_ips
             THEN {<<[ip \in DOMAIN recent \ E |-> recent[ip]], t>> :
                       E \in oldest_entries(recent, cfg.max_tracked_ips)}
             ELSE {<<recent, t>>}

\* one check as the caller saw it: begun at time at, answered Ok(remaining)
\* or Err(retry_after)
CheckResult(ip, at, ok, rem, retry) ==
    [ip |-> ip, at |-> at, ok |-> ok, remaining |-> rem, retry_after |-> retry]

\* check past its enabled test, on the records and last_cleanup maybe_cleanup
\* left (out): t is the clock when the window is cut, t + d when the new
\* timestamp is taken or the age of the oldest one is read
check_enabled(out, ip, t, d, cfg) ==
    LET records == out[1]
        old == IF ip \in DOMAIN records THEN records[ip] ELSE RequestRecord_new
        timestamps == clean_and_count(old, t, cfg.window)
        current_count == Len(timestamps)
        blocked == current_count >= cfg.max_requests
        new == IF blocked THEN timestamps ELSE record(timestamps, t + d)
    IN  [records |-> [s \in DOMAIN records \cup {ip} |->
                         IF s = ip THEN new ELSE records[s]],
         last_cleanup |-> out[2],
         res |-> IF blocked
                 THEN CheckResult(ip, t, FALSE, -1,
                                  retry_after(timestamps, t + d, cfg.window))
                 ELSE CheckResult(ip, t, TRUE,
                                  remaining(cfg.max_requests, current_count), -1)]

check_always_enabled(records, last_cleanup, poisoned, out, ip, t, d, cfg) ==
    check_enabled(out, ip, t, d, cfg)

check_fail_closed(records, last_cleanup, poisoned, out, ip, t, d, cfg) ==
    IF ~cfg.enabled
    THEN [records |-> records,
          last_cleanup |-> last_cleanup,
          res |-> CheckResult(ip, t, TRUE, cfg.max_requests, -1)]
    ELSE IF "records" \in poisoned
    THEN [records |-> records,
          last_cleanup |-> out[2],
          res |-> CheckResult(ip, t, FALSE, -1, cfg.window)]
    ELSE check_enabled(out, ip, t, d, cfg)

\* check on a limiter holding records and last_cleanup: what it leaves and
\* what it answers
check(records, last_cleanup, poisoned, out, ip, t, d, cfg) ==
    IF ~cfg.enabled
    THEN [records |-> records,
          last_cleanup |-> last_cleanup,
          res |-> CheckResult(ip, t, TRUE, cfg.max_requests, -1)]
    ELSE IF "records" \in poisoned
    THEN [records |-> records,
          last_cleanup |-> out[2],
          res |-> CheckResult(ip, t, TRUE, cfg.max_requests, -1)]
    ELSE check_enabled(out, ip, t, d, cfg)

\* a limiter of the same configuration that source ip has to itself
RateLimiter_new == [records |-> << >>, last_cleanup |-> 0]

\* the limiter RateLimiter::new(cfg) builds, at a clock of 0
RateLimiter_of(cfg) ==
    [pc |-> "on",
     config |-> cfg,
     t |-> 0,                \* the monotonic clock
     last_cleanup |-> 0,
     records |-> << >>,      \* source -> its timestamps, oldest first
     evictions |-> 0,        \* records compaction has dropped
     log |-> << >>,          \* the checks answered, in order
     solo |-> [ip \in Sources |-> RateLimiter_new],
                             \* per source, a limiter that is sent
                             \* that source's checks and no others
     alone |-> << >>,        \* what those limiters answered
     stamps |-> << >>,       \* per check, the clock when it was answered
     sweep |-> [at |-> -1, pre |-> << >>, post |-> << >>],
                             \* the last compaction sweep: its time, the
                             \* records it found and those it left
     poisoned |-> {},        \* the locks that are poisoned
     locks |-> << >>]        \* per check, the locks poisoned then

InitRl ==
    /\ \E cfg \in RateLimitConfig : rl = RateLimiter_of(cfg)
    /\ run = [pc |-> "off"]
    /\ reg = [pc |-> "off"]
    /\ gate = [pc |-> "off"]
    /\ pf = [pc |-> "off"]
    /\ InitHttpIdle
    /\ InitWsIdle
    /\ InitStIdle

RlFrame == UNCHANGED <<run, reg, gate, pf, httpVars, wsVars, stVars>>

RlTick ==
    /\ rl.pc = "on"
    /\ rl.t < MaxClock
    /\ rl' = [rl EXCEPT !.t = rl.t + 1]
    /\ RlFrame

\* the call check(ip), taking time d, with maybe_cleanup leaving out; the
\* source's own limiter is sent the same call
RlCall(ip, d, out) ==
    LET cfg == rl.config
        r == check(rl.records, rl.last_cleanup, rl.poisoned, out, ip, rl.t, d, cfg)
        mine == rl.solo[ip]
        outMine == CHOOSE o \in maybe_cleanup(mine.records, mine.last_cleanup,
                                              {}, rl.t, cfg) : TRUE
        a == check(mine.records, mine.last_cleanup, {}, outMine, ip, rl.t, d, cfg)
    IN  /\ rl.t + d <= MaxClock
        /\ rl' = [rl EXCEPT
                    !.t = rl.t + d,
                    !.last_cleanup = r.last_cleanup,
                    !.records = r.records,
                    !.evictions = @ + Cardinality(DOMAIN rl.records \ DOMAIN out[1]),
                    !.log = Append(@, r.res),
                    !.solo[ip] = [records |-> a.records,
                                  last_cleanup |-> a.last_cleanup],
                    !.alone = Append(@, a.res),
                    !.stamps = Append(@, rl.t + d),
                    !.sweep = IF cfg.enabled /\ "records" \notin rl.poisoned
                                 /\ out[2] # rl.last_cleanup
                              THEN [at |-> rl.t, pre |-> rl.records, post |-> out[1]]
                              ELSE @,
                    !.locks = Append(@, rl.poisoned)]

\* check on a disabled limiter
RlCheckDisabled(ip) ==
    /\ rl.pc = "on"
    /\ Len(rl.log) < MaxChecks
    /\ ~rl.config.enabled
    /\ RlCall(ip, 0, <<rl.records, rl.last_cleanup>>)
    /\ RlFrame

\* check on an enabled limiter
RlCheck(ip) ==
    /\ rl.pc = "on"
    /\ Len(rl.log) < MaxChecks
    /\ rl.config.enabled
    /\ \E d \in 0 .. MaxCheckTime :
       \E out \in maybe_cleanup(rl.records, rl.last_cleanup, rl.poisoned,
                                rl.t, rl.config) :
          RlCall(ip, d, out)
    /\ RlFrame

NextRl ==
    \/ RlTick
    \/ \E ip \in Sources : RlCheckDisabled(ip)
    \/ \E ip \in Sources : RlCheck(ip)

SpecRl == InitRl /\ [][NextRl]_vars

\* a thread panics while it holds the write lock l, which poisons it for
\* good; one panic per run
RlPoison(l) ==
    /\ rl.pc = "on"
    /\ rl.config.enabled
    /\ rl.poisoned = {}
    /\ rl' = [rl EXCEPT !.poisoned = @ \cup {l}]
    /\ RlFrame

\* an enabled limiter whose cap the sources never exceed
InitRlPoison ==
    /\ InitRl
    /\ rl.config.enabled
    /\ rl.config.max_tracked_ips = MaxTracked

NextRlPoison ==
    \/ RlTick
    \/ \E ip \in Sources : RlCheck(ip)
    \/ \E l \in Locks : RlPoison(l)

SpecRlPoison == InitRlPoison /\ [][NextRlPoison]_vars

\* the positions in the log of the checks source ip issued, and how many of
\* them come at or before position i
ChecksOf(ip) == {i \in DOMAIN rl.log : rl.log[i].ip = ip}
Rank(i) == Cardinality({j \in ChecksOf(rl.log[i].ip) : j <= i})
SourcesUpTo(i) == {rl.log[j].ip : j \in 1 .. i}

\* check i and all earlier checks of its source fall within a single window:
\* the first of them began less than one window before check i did
InOneWindow(i) ==
    \A j \in ChecksOf(rl.log[i].ip) :
        j <= i => rl.log[i].at - rl.log[j].at < rl.config.window

\* C20: with the limiter enabled and max_requests = N, while the sources that
\* have issued checks number at most max_tracked_ips (one source alone always
\* does), the k-th check of a source whose checks so far all fall within a
\* single window is allowed with remaining = N - k when k <= N, and blocked
\* with 0 <= retry_after <= window when k > N.
C20_QuotaWithinWindow ==
    rl.config.enabled =>
        \A i \in DOMAIN rl.log :
            (InOneWindow(i) /\ Cardinality(SourcesUpTo(i)) <= rl.config.max_tracked_ips) =>
                LET k == Rank(i)
                    N == rl.config.max_requests
                IN  /\ k <= N => (rl.log[i].ok /\ rl.log[i].remaining = N - k)
                    /\ k > N  => /\ ~rl.log[i].ok
                                 /\ 0 <= rl.log[i].retry_after
                                 /\ rl.log[i].retry_after <= rl.config.window

\* one source used its whole quota of MaxRequests within a window, while time
\* passed, and its next check within the window was blocked
C20_Witness ==
    /\ rl.config.enabled
    /\ rl.config.max_requests = MaxRequests
    /\ \E i \in DOMAIN rl.log :
          /\ Rank(i) = MaxRequests + 1
          /\ InOneWindow(i)
          /\ Cardinality(SourcesUpTo(i)) <= rl.config.max_tracked_ips
          /\ ~rl.log[i].ok
          /\ \E j \in ChecksOf(rl.log[i].ip) : rl.log[j].at < rl.log[i].at

\* C21: distinct sources share no quota: every check of a source is answered
\* as it is in the run where the same source issues the same checks at the
\* same times and no other source issues any, also when the other sources
\* outnumber max_tracked_ips and compaction evicts records.
C21_NoSharedQuota ==
    \A i \in DOMAIN rl.log : rl.log[i] = rl.alone[i]

\* C22: in every reachable state the number of tracked source records is at
\* most max_tracked_ips, however many sources call check and whenever.
C22_TrackedBounded ==
    Cardinality(DOMAIN rl.records) <= rl.config.max_tracked_ips

\* C26: a disabled limiter answers every check of every source allowed with
\* remaining = max_requests and keeps its records and its last-compaction
\* time as they were when it was built.
C26_DisabledAdmitsAll ==
    ~rl.config.enabled =>
        /\ \A i \in DOMAIN rl.log :
              rl.log[i].ok /\ rl.log[i].remaining = rl.config.max_requests
        /\ rl.records = RateLimiter_new.records
        /\ rl.last_cleanup = RateLimiter_new.last_cleanup

\* a disabled limiter answered MaxChecks checks of several sources, more than
\* max_requests of them, the last ones when a compaction was overdue
C26_Witness ==
    /\ ~rl.config.enabled
    /\ Len(rl.log) = MaxChecks
    /\ rl.config.max_requests > 0
    /\ Cardinality(SourcesUpTo(Len(rl.log))) > 1
    /\ rl.log[Len(rl.log)].at - rl.last_cleanup > rl.config.window * 2

\* C27 as stated: with the records lock or the last-compaction lock
\* poisoned, check admits the request.
C27_FailOpenAnyLock ==
    \A i \in DOMAIN rl.log :
        (rl.config.enabled /\ rl.locks[i] # {}) => rl.log[i].ok

\* C27 as amended: with the records lock poisoned check admits the request
\* with remaining = max_requests; with only the last-compaction lock poisoned
\* check still answers, by the source's quota: allowed with remaining below
\* max_requests, or blocked with a retry_after within the window.
C27_FailOpenRecordsLock ==
    /\ \A i \in DOMAIN rl.log :
          (rl.config.enabled /\ "records" \in rl.locks[i]) =>
              (rl.log[i].ok /\ rl.log[i].remaining = rl.config.max_requests)
    /\ \A i \in DOMAIN rl.log :
          (rl.config.enabled /\ rl.locks[i] = {"last_cleanup"}) =>
              \/ rl.log[i].ok /\ rl.log[i].remaining \in 0 .. rl.config.max_requests - 1
              \/ ~rl.log[i].ok /\ rl.log[i].retry_after \in 0 .. rl.config.window

\* a source that had used up its quota in the window is admitted once the
\* records lock is poisoned
C27_Witness ==
    /\ rl.config.enabled
    /\ rl.config.max_requests > 0
    /\ \E i \in DOMAIN rl.log :
          /\ "records" \in rl.locks[i]
          /\ rl.log[i].ok
          /\ InOneWindow(i)
          /\ \E j \in ChecksOf(rl.log[i].ip) :
                j < i /\ rl.locks[j] = {} /\ ~rl.log[j].ok

(***************************************************************************)
(* SpecGate: the admission chain of create_secure_router.  The layer added *)
(* last is the outermost, so a request meets rate_limit_middleware, then   *)
(* auth_middleware, then the route.  One request is in the chain at a      *)
(* time; the key store changes between its steps.  The clock stands still: *)
(* all requests fall within one window.                                    *)
(***************************************************************************)
MaxGateReqs == 3

\* strings as sequences of characters; EAcute is one character outside
\* ASCII (U+00E9)
EAcute == "U+00E9"

Bearer == <<"B", "e", "a", "r", "e", "r", " ">>

\* the keys add_key and remove_key are called with
KeyArgs == {<<"k">>, <<"k", EAcute>>}

\* the values of the authorization header requests carry
HeaderValues ==
    {Bearer \o <<"k">>,
     Bearer \o <<"x">>,
     Bearer \o <<"k", EAcute>>,
     Bearer \o <<" ", "k">>,
     <<"b", "e", "a", "r", "e", "r", " ", "k">>,
     <<"B", "e", "a", "r", "e", "r", "k">>,
     <<"k">>}

\* the requests: a route of the API, and /health with its method and another
Routes ==
    {[path |-> "/api/v1/sessions", method |-> "POST"],
     [path |-> "/health", method |-> "GET"],
     [path |-> "/health", method |-> "POST"]}

\* HeaderValue::to_str: the text of a value made of visible ASCII only
is_visible_ascii(c) == c # EAcute

to_str(v) ==
    IF \A i \in DOMAIN v : is_visible_ascii(v[i]) THEN Some(v) ELSE Nothing

starts_with(s, prefix) ==
    /\ Len(s) >= Len(prefix)
    /\ SubSeq(s, 1, Len(prefix)) = prefix

extract_key(header_value) ==
    IF starts_with(header_value, Bearer)
    THEN Some(SubSeq(header_value, Len(Bearer) + 1, Len(header_value)))
    ELSE Nothing

is_valid(keys, key) == key \in keys

\* auth_middleware's decision on an enabled store for a path other than
\* /health: the request goes on (TRUE) or is answered 401 (FALSE)
auth_admits(keys, header) ==
    LET auth_header == IF header = Nothing THEN Nothing
                       ELSE to_str(CHOOSE v \in header : TRUE)
    IN  /\ auth_header # Nothing
        /\ LET key == extract_key(CHOOSE h \in auth_header : TRUE)
           IN  key # Nothing /\ is_valid(keys, CHOOSE k \in key : TRUE)

\* the limiter configurations of the chain: one window, a cap above the
\* number of sources
GateConfigs ==
    {cfg \in RateLimitConfig :
        /\ cfg.window = MaxWindow
        /\ cfg.max_tracked_ips = MaxTracked
        /\ cfg.max_requests <= 1}

\* the layers of create_secure_router from the outside in: what a request
\* meets after stage
next_layer_auth_first(stage) ==
    CASE stage = "arrive"  -> "auth"
      [] stage = "auth"    -> "limiter"
      [] stage = "limiter" -> "route"

next_layer(stage) ==
    CASE stage = "arrive"  -> "limiter"
      [] stage = "limiter" -> "auth"
      [] stage = "auth"    -> "route"

\* the paths the two middlewares let through unexamined
rate_limit_exempt_none(path) == FALSE

rate_limit_exempt(path) == path = "/health"

auth_exempt(path) == path = "/health"

\* how many timestamps records holds for source ip
Used(records, ip) == IF ip \in DOMAIN records THEN Len(records[ip]) ELSE 0

NoCur == [pc |-> "none"]

NoAnswer ==
    [ip |-> 0, path |-> "", method |-> "", header |-> Nothing,
     status |-> 0, body |-> "", trail |-> << >>, checked |-> 0,
     keysAt |-> {}, records0 |-> << >>, records1 |-> << >>]

InitGate ==
    /\ \E cfg \in GateConfigs : rl = RateLimiter_of(cfg)
    /\ \E on \in BOOLEAN :
          gate = [pc |-> "on",
                  enabled |-> on,      \* AuthConfig.enabled
                  keys |-> {},         \* ApiKeyStore.keys
                  n |-> 0,             \* requests that entered the chain
                  handled |-> 0,       \* requests that reached a handler of the API
                  cur |-> NoCur,       \* the request in the chain
                  last |-> NoAnswer]   \* the latest answer given
    /\ run = [pc |-> "off"]
    /\ reg = [pc |-> "off"]
    /\ pf = [pc |-> "off"]
    /\ InitHttpIdle
    /\ InitWsIdle
    /\ InitStIdle

GateFrame == UNCHANGED <<run, reg, pf, httpVars, wsVars, stVars>>

\* the answer given to the request in the chain, records being the
\* limiter's records then
Answer(cur, status, body, records) ==
    [ip |-> cur.ip, path |-> cur.path, method |-> cur.method,
     header |-> cur.header, status |-> status, body |-> body,
     trail |-> cur.trail, checked |-> cur.checked, keysAt |-> cur.keysAt,
     records0 |-> cur.records0, records1 |-> records]

GateAddKey(k) ==
    /\ gate.pc = "on"
    /\ k \notin gate.keys
    /\ gate' = [gate EXCEPT !.keys = @ \cup {k}]
    /\ UNCHANGED rl
    /\ GateFrame

GateRemoveKey(k) ==
    /\ gate.pc = "on"
    /\ k \in gate.keys
    /\ gate' = [gate EXCEPT !.keys = @ \ {k}]
    /\ UNCHANGED rl
    /\ GateFrame

GateArrive(ip, route, header) ==
    /\ gate.pc = "on"
    /\ gate.cur.pc = "none"
    /\ gate.n < MaxGateReqs
    /\ gate' = [gate EXCEPT
                  !.n = @ + 1,
                  !.cur = [pc |-> next_layer("arrive"), ip |-> ip,
                           path |-> route.path, method |-> route.method,
                           header |-> header, trail |-> << >>, checked |-> 0,
                           keysAt |-> {}, records0 |-> rl.records]]
    /\ UNCHANGED rl
    /\ GateFrame

\* rate_limit_middleware on /health: straight to the next layer
GateLimiterSkip ==
    /\ gate.cur.pc = "limiter"
    /\ rate_limit_exempt(gate.cur.path)
    /\ gate' = [gate EXCEPT !.cur.pc = next_layer("limiter")]
    /\ UNCHANGED rl
    /\ GateFrame

\* rate_limit_middleware on any other path: limiter.check(addr.ip()), then
\* the next layer or 429
GateLimiter ==
    /\ gate.cur.pc = "limiter"
    /\ ~rate_limit_exempt(gate.cur.path)
    /\ \E out \in maybe_cleanup(rl.records, rl.last_cleanup, rl.poisoned,
                                rl.t, rl.config) :
          /\ RlCall(gate.cur.ip, 0, out)
          /\ LET res == rl'.log[Len(rl'.log)]
                 cur == [gate.cur EXCEPT !.trail = Append(@, "limiter"),
                                         !.checked = Len(rl'.log)]
             IN  IF res.ok
                 THEN gate' = [gate EXCEPT
                                 !.cur = [cur EXCEPT !.pc = next_layer("limiter")]]
                 ELSE gate' = [gate EXCEPT
                                 !.cur = NoCur,
                                 !.last = Answer(cur, 429, "Rate limit exceeded",
                                                 rl'.records)]
    /\ GateFrame

\* auth_middleware with the store disabled or on /health: the next layer
GateAuthSkip ==
    /\ gate.cur.pc = "auth"
    /\ ~gate.enabled \/ auth_exempt(gate.cur.path)
    /\ gate' = [gate EXCEPT !.cur.pc = next_layer("auth")]
    /\ UNCHANGED rl
    /\ GateFrame

\* auth_middleware otherwise: the header is looked at and the key looked up
GateAuth ==
    /\ gate.cur.pc = "auth"
    /\ gate.enabled /\ ~auth_exempt(gate.cur.path)
    /\ LET cur == [gate.cur EXCEPT !.trail = Append(@, "auth"),
                                   !.keysAt = gate.keys]
       IN  IF auth_admits(gate.keys, gate.cur.header)
           THEN gate' = [gate EXCEPT !.cur = [cur EXCEPT !.pc = next_layer("auth")]]
           ELSE gate' = [gate EXCEPT !.cur = NoCur,
                                     !.last = Answer(cur, 401, "", rl.records)]
    /\ UNCHANGED rl
    /\ GateFrame

\* the route: GET /health answers OK, another method on it 405; the API's
\* routes run their handler
GateRoute ==
    /\ gate.cur.pc = "route"
    /\ LET cur == [gate.cur EXCEPT !.trail = Append(@, "route")]
       IN  IF cur.path = "/health"
           THEN gate' = [gate EXCEPT
                           !.cur = NoCur,
                           !.last = IF cur.method = "GET"
                                    THEN Answer(cur, 200, "OK", rl.records)
                                    ELSE Answer(cur, 405, "", rl.records)]
           ELSE gate' = [gate EXCEPT
                           !.cur = NoCur,
                           !.handled = @ + 1,
                           !.last = Answer(cur, 200, "handler", rl.records)]
    /\ UNCHANGED rl
    /\ GateFrame

NextGate ==
    \/ \E k \in KeyArgs : GateAddKey(k)
    \/ \E k \in KeyArgs : GateRemoveKey(k)
    \/ \E ip \in Sources, route \in Routes,
          header \in {Nothing} \cup {Some(v) : v \in HeaderValues} :
             GateArrive(ip, route, header)
    \/ GateLimiterSkip
    \/ GateLimiter
    \/ GateAuthSkip
    \/ GateAuth
    \/ GateRoute

SpecGate == InitGate /\ [][NextGate]_vars


\* the stages in a request's trail
Range(trail) == {trail[i] : i \in DOMAIN trail}

\* the header that carries key: the exact prefix followed by the key
Bearing(header, key) == header = Some(Bearer \o key)

\* C23: a request for a path other than /health meets the limiter before the
\* auth check: one the limiter blocks is answered 429 whatever its credential
\* and reaches neither the auth check nor a handler, and one answered 401
\* passed the limiter first and, the limiter enabled, left a timestamp in its
\* source's record.
C23_LimiterBeforeAuth ==
    LET a == gate.last IN
    (a.status # 0 /\ a.path # "/health") =>
        /\ a.trail # << >> /\ a.trail[1] = "limiter"
        /\ a.checked > 0
        /\ ~rl.log[a.checked].ok <=> a.status = 429
        /\ a.status = 429 => a.trail = <<"limiter">>
        /\ a.status = 401 =>
              /\ a.trail = <<"limiter", "auth">>
              /\ rl.config.enabled =>
                    Used(a.records1, a.ip) = Used(a.records0, a.ip) + 1

\* a request bearing a registered key is blocked by the limiter, auth being
\* enabled, and no handler has run
C23_Witness ==
    LET a == gate.last IN
    /\ a.status = 429
    /\ gate.enabled
    /\ \E k \in gate.keys : Bearing(a.header, k) /\ auth_admits(gate.keys, a.header)
    /\ gate.handled = 0

\* C24: the auth gate lets a request through if and only if the store is
\* disabled, or the path is /health, or the request carries the authorization
\* header whose value is `Bearer ` followed by a key that is in the key set
\* when the gate looks; every other request is answered 401.
C24_AuthGate ==
    LET a == gate.last IN
    (a.status # 0 /\ a.status # 429) =>
        LET admit == \/ ~gate.enabled
                     \/ a.path = "/health"
                     \/ \E k \in a.keysAt : Bearing(a.header, k)
        IN  IF admit THEN a.status # 401 /\ "route" \in Range(a.trail)
                     ELSE a.status = 401

\* C25: a request to /health is never answered 429 or 401, whatever the
\* limiter's state and the auth configuration, GET /health is answered 200
\* OK, and the limiter's records are what they were when the request came.
C25_HealthExempt ==
    LET a == gate.last IN
    (a.status # 0 /\ a.path = "/health") =>
        /\ a.status \notin {429, 401}
        /\ a.method = "GET" => (a.status = 200 /\ a.body = "OK")
        /\ a.checked = 0
        /\ a.records1 = a.records0
        /\ "limiter" \notin Range(a.trail) /\ "auth" \notin Range(a.trail)

\* GET /health without a credential, auth enabled, from a source the limiter
\* has blocked and would block again
C25_Witness ==
    LET a == gate.last IN
    /\ a.path = "/health" /\ a.method = "GET" /\ a.status = 200
    /\ a.header = Nothing
    /\ gate.enabled
    /\ rl.config.enabled
    /\ \E i \in DOMAIN rl.log : rl.log[i].ip = a.ip /\ ~rl.log[i].ok
    /\ Used(rl.records, a.ip) >= rl.config.max_requests


(***************************************************************************)
(* SpecId: SessionId's text form.  Strings are sequences of characters; a  *)
(* u64 is the sequence of its hexadecimal digits (values 0..15) without    *)
(* leading zeros, so that 64-bit values need no 64-bit arithmetic: it has  *)
(* at most U64Digits digits.                                               *)
(***************************************************************************)
MaxDigits == 17
U64Digits == 16
DisplayWidth == 8

HexLower == <<"0", "1", "2", "3", "4", "5", "6", "7", "8", "9",
              "a", "b", "c", "d", "e", "f">>
HexUpper == <<"0", "1", "2", "3", "4", "5", "6", "7", "8", "9",
              "A", "B", "C", "D", "E", "F">>

Rep(c, n) == [i \in 1 .. n |-> c]

SessPrefix == <<"s", "e", "s", "s", "-">>

\* char::to_digit(16): the digit's value, or -1
to_digit_lower(c) ==
    IF \E i \in 1 .. 16 : HexLower[i] = c
    THEN (CHOOSE i \in 1 .. 16 : HexLower[i] = c) - 1
    ELSE -1

to_digit(c) ==
    IF \E i \in 1 .. 16 : HexLower[i] = c
    THEN (CHOOSE i \in 1 .. 16 : HexLower[i] = c) - 1
    ELSE IF \E i \in 1 .. 16 : HexUpper[i] = c
    THEN (CHOOSE i \in 1 .. 16 : HexUpper[i] = c) - 1
    ELSE -1

\* acc * 16 + d on digit sequences
mul_add(acc, d) == IF acc = << >> /\ d = 0 THEN << >> ELSE Append(acc, d)

\* the digits of from_str_radix, left to right from acc: Some(value), or
\* Nothing on a character that is no digit or on overflow
RECURSIVE parse_digits(_, _)
parse_digits(src, acc) ==
    IF src = << >> THEN Some(acc)
    ELSE LET d == to_digit(Head(src))
         IN  IF d = -1 THEN Nothing
             ELSE IF Len(mul_add(acc, d)) > U64Digits THEN Nothing
             ELSE parse_digits(Tail(src), mul_add(acc, d))

\* u64::from_str_radix(src, 16)
from_str_radix(src) ==
    IF src = << >> THEN Nothing
    ELSE IF Head(src) \in {"+", "-"} /\ Tail(src) = << >> THEN Nothing
    ELSE IF Head(src) = "+" THEN parse_digits(Tail(src), << >>)
    ELSE parse_digits(src, << >>)

strip_prefix(str, prefix) ==
    IF Len(str) >= Len(prefix) /\ SubSeq(str, 1, Len(prefix)) = prefix
    THEN Some(SubSeq(str, Len(prefix) + 1, Len(str)))
    ELSE Nothing

\* <SessionId as FromStr>::from_str: [ok, id] or [ok, err]
from_str(str) ==
    LET hex == strip_prefix(str, SessPrefix)
        v == IF hex = Nothing THEN Nothing
             ELSE from_str_radix(CHOOSE h \in hex : TRUE)
    IN  IF v = Nothing
        THEN [ok |-> FALSE, id |-> << >>, err |-> "SessionNotFound"]
        ELSE [ok |-> TRUE, id |-> CHOOSE x \in v : TRUE, err |-> None]

\* {:08x}: lower-case digits, padded with zeros to DisplayWidth
fmt_08x_low_digits(v) ==
    LET padded == Rep(0, DisplayWidth) \o v
    IN  [i \in 1 .. DisplayWidth |->
            HexLower[padded[Len(padded) - DisplayWidth + i] + 1]]

fmt_08x(v) ==
    LET pad == IF Len(v) < DisplayWidth THEN DisplayWidth - Len(v) ELSE 0
        padded == Rep(0, pad) \o v
    IN  [i \in 1 .. Len(padded) |-> HexLower[padded[i] + 1]]

\* <SessionId as Display>::fmt
to_string(v) == SessPrefix \o fmt_08x(v)

\* the strings handed to parse: a prefix, a sign or none, a run of n equal
\* characters and one more character or none
Prefixes == {SessPrefix, << >>, <<"S", "e", "s", "s", "-">>,
             <<"s", "e", "s", "s", "i", "o", "n", "-">>}
Signs == {<< >>, <<"+">>, <<"-">>}
RunChars == {"0", "1", "f", "F", "g"}
Tails == {<< >>, <<"A">>, <<"g">>, <<" ">>}

\* the ids: zero, and a leading digit followed by a run of equal digits
IdValues ==
    {<< >>} \cup {<<a>> \o Rep(c, n) : a \in {1, 15}, c \in {0, 10, 15},
                                      n \in 0 .. U64Digits - 1}

InitId ==
    /\ \/ \E prefix \in Prefixes, sign \in Signs, c \in RunChars,
             n \in 0 .. MaxDigits, tail \in Tails :
               pf = [pc |-> "str", prefix |-> prefix,
                     body |-> sign \o Rep(c, n) \o tail]
       \/ \E v \in IdValues : pf = [pc |-> "id", id |-> v]
    /\ run = [pc |-> "off"]
    /\ reg = [pc |-> "off"]
    /\ rl = [pc |-> "off"]
    /\ gate = [pc |-> "off"]
    /\ InitHttpIdle
    /\ InitWsIdle
    /\ InitStIdle

PfFrame == UNCHANGED <<run, reg, rl, gate, httpVars, wsVars, stVars>>

\* s.parse::<SessionId>()
IdParse ==
    /\ pf.pc = "str"
    /\ pf' = [pc |-> "parsed", prefix |-> pf.prefix, body |-> pf.body,
              res |-> from_str(pf.prefix \o pf.body)]
    /\ PfFrame

\* SessionId::from_raw(v).to_string().parse()
IdRoundTrip ==
    /\ pf.pc = "id"
    /\ pf' = [pc |-> "round", id |-> pf.id, text |-> to_string(pf.id),
              res |-> from_str(to_string(pf.id))]
    /\ PfFrame

NextId == IdParse \/ IdRoundTrip

SpecId == InitId /\ [][NextId]_vars

IsHex(c) ==
    c \in {"0", "1", "2", "3", "4", "5", "6", "7", "8", "9", "a", "b", "c",
           "d", "e", "f", "A", "B", "C", "D", "E", "F"}

\* the digits of ds after its leading zeros
RECURSIVE Significant(_)
Significant(ds) ==
    IF ds # << >> /\ Head(ds) = "0" THEN Significant(Tail(ds)) ELSE ds

\* C28 as stated: parse accepts exactly `sess-` followed by exactly 8
\* hexadecimal digits, and fails on every other string with the not-found
\* error.
C28_ParseExactly8 ==
    pf.pc = "parsed" =>
        /\ pf.res.ok <=> /\ pf.prefix = SessPrefix
                         /\ Len(pf.body) = DisplayWidth
                         /\ \A i \in DOMAIN pf.body : IsHex(pf.body[i])
        /\ ~pf.res.ok => pf.res.err = "SessionNotFound"

\* C28 as amended: parse accepts exactly `sess-` followed by an optional `+`
\* and one or more hexadecimal digits of either case whose value fits in 64
\* bits; every other string fails with the not-found error.
C28_ParseHex ==
    pf.pc = "parsed" =>
        LET ds == IF pf.body # << >> /\ Head(pf.body) = "+"
                  THEN Tail(pf.body) ELSE pf.body
        IN  /\ pf.res.ok <=> /\ pf.prefix = SessPrefix
                             /\ ds # << >>
                             /\ \A i \in DOMAIN ds : IsHex(ds[i])
                             /\ Len(Significant(ds)) <= U64Digits
            /\ pf.res.ok => Len(pf.res.id) = Len(Significant(ds))
            /\ ~pf.res.ok => pf.res.err = "SessionNotFound"

\* `sess-+FFFA` was accepted: a sign, upper-case digits, fewer than 8
C28_Witness ==
    /\ pf.pc = "parsed"
    /\ pf.res.ok
    /\ pf.prefix = SessPrefix
    /\ pf.body = <<"+", "F", "F", "F", "A">>
    /\ pf.res.id = <<15, 15, 15, 10>>

\* C29: for every id value v, also one that does not fit in 32 bits, parsing
\* the display form of SessionId(v) gives SessionId(v).
C29_RoundTrip ==
    pf.pc = "round" => (pf.res.ok /\ pf.res.id = pf.id)

\* the round trip of an id of 64 bits
C29_Witness ==
    /\ pf.pc = "round"
    /\ Len(pf.id) = U64Digits
    /\ Len(pf.text) = Len(SessPrefix) + U64Digits
    /\ pf.res.ok


(***************************************************************************)
(* SpecSan: OutputSanitizer::strip_ansi.  parser.advance drives the        *)
(* PlainTextExtractor through the VT state machine of the vte parser, one  *)
(* byte at a time; bytes are numbers 0..255.  The input is either any      *)
(* sequence of bytes, or a sequence of segments each of which is a text    *)
(* character, a control or a complete escape sequence.                     *)
(***************************************************************************)
MaxInput == 4
MaxSegments == 3

ESC == 27
BEL == 7
CAN == 24
SUB == 26
Replacement == <<239, 191, 189>>     \* U+FFFD in UTF-8

\* PlainTextExtractor::print: the character's UTF-8 bytes are appended
print(output, encoded) == output \o encoded

\* PlainTextExtractor::execute
execute_all(output, byte) == Append(output, byte)

execute(output, byte) ==
    IF byte \in {10, 13, 9} THEN Append(output, byte) ELSE output

ParserStates ==
    {"Ground", "Escape", "EscapeIntermediate", "CsiEntry", "CsiParam",
     "CsiIntermediate", "CsiIgnore", "DcsEntry", "DcsParam", "DcsIntermediate",
     "DcsPassthrough", "DcsIgnore", "OscString", "SosPmApcString"}

\* Parser::new with PlainTextExtractor::new; partial is the lead byte of a
\* two-byte character waiting for its continuation, or 0
Parser_new == [state |-> "Ground", partial |-> 0, output |-> << >>]

IsContinuation(b) == b >= 128 /\ b <= 191
IsLead2(b) == b >= 194 /\ b <= 223

\* a byte met in the ground state with no partial character pending
ground_byte(p, b) ==
    IF b = ESC THEN [p EXCEPT !.state = "Escape"]
    ELSE IF b < 32 THEN [p EXCEPT !.output = execute(@, b)]
    ELSE IF b < 128 THEN [p EXCEPT !.output = print(@, <<b>>)]
    ELSE IF IsLead2(b) THEN [p EXCEPT !.partial = b]
    ELSE [p EXCEPT !.output = print(@, Replacement)]

\* the ground state: text is decoded as UTF-8; C0 and C1 controls are
\* executed, every other character printed, an invalid byte printed as U+FFFD
advance_ground(p, b) ==
    IF p.partial = 0 THEN ground_byte(p, b)
    ELSE IF IsContinuation(b)
    THEN IF p.partial = 194 /\ b <= 159
         THEN [p EXCEPT !.partial = 0, !.output = execute(@, b)]
         ELSE [p EXCEPT !.partial = 0, !.output = print(@, <<p.partial, b>>)]
    ELSE ground_byte([p EXCEPT !.partial = 0, !.output = print(@, Replacement)], b)

To(p, state) == [p EXCEPT !.state = state]

\* a byte met in a state other than ground
advance_escape(p, b) ==
    LET cur == p.state
        c0 == b < 32
        exec == [p EXCEPT !.output = execute(@, b)]
    IN
    IF b = CAN \/ b = SUB THEN To(exec, "Ground")
    ELSE IF b = ESC THEN To(p, "Escape")
    ELSE IF b >= 127 THEN p
    ELSE CASE cur = "Escape" ->
                IF c0 THEN exec
                ELSE IF b <= 47 THEN To(p, "EscapeIntermediate")
                ELSE IF b = 80 THEN To(p, "DcsEntry")
                ELSE IF b = 91 THEN To(p, "CsiEntry")
                ELSE IF b = 93 THEN To(p, "OscString")
                ELSE IF b \in {88, 94, 95} THEN To(p, "SosPmApcString")
                ELSE To(p, "Ground")                      \* esc_dispatch
           [] cur = "EscapeIntermediate" ->
                IF c0 THEN exec
                ELSE IF b <= 47 THEN p
                ELSE To(p, "Ground")                      \* esc_dispatch
           [] cur = "CsiEntry" ->
                IF c0 THEN exec
                ELSE IF b <= 47 THEN To(p, "CsiIntermediate")
                ELSE IF b = 58 THEN To(p, "CsiIgnore")
                ELSE IF b <= 63 THEN To(p, "CsiParam")
                ELSE To(p, "Ground")                      \* csi_dispatch
           [] cur = "CsiParam" ->
                IF c0 THEN exec
                ELSE IF b <= 47 THEN To(p, "CsiIntermediate")
                ELSE IF b <= 59 THEN p
                ELSE IF b <= 63 THEN To(p, "CsiIgnore")
                ELSE To(p, "Ground")                      \* csi_dispatch
           [] cur = "CsiIntermediate" ->
                IF c0 THEN exec
                ELSE IF b <= 47 THEN p
                ELSE IF b <= 63 THEN To(p, "CsiIgnore")
                ELSE To(p, "Ground")                      \* csi_dispatch
           [] cur = "CsiIgnore" ->
                IF c0 THEN exec
                ELSE IF b <= 63 THEN p
                ELSE To(p, "Ground")
           [] cur = "DcsEntry" ->
                IF c0 THEN p
                ELSE IF b <= 47 THEN To(p, "DcsIntermediate")
                ELSE IF b = 58 THEN To(p, "DcsIgnore")
                ELSE IF b <= 63 THEN To(p, "DcsParam")
                ELSE To(p, "DcsPassthrough")              \* hook
           [] cur = "DcsParam" ->
                IF c0 THEN p
                ELSE IF b <= 47 THEN To(p, "DcsIntermediate")
                ELSE IF b <= 59 THEN p
                ELSE IF b <= 63 THEN To(p, "DcsIgnore")
                ELSE To(p, "DcsPassthrough")              \* hook
           [] cur = "DcsIntermediate" ->
                IF c0 THEN p
                ELSE IF b <= 47 THEN p
                ELSE IF b <= 63 THEN To(p, "DcsIgnore")
                ELSE To(p, "DcsPassthrough")              \* hook
           [] cur = "DcsPassthrough" -> p                  \* put
           [] cur = "DcsIgnore" -> p
           [] cur = "OscString" ->
                IF b = BEL THEN To(p, "Ground")           \* osc_dispatch
                ELSE p
           [] cur = "SosPmApcString" -> p

\* Parser::advance on one byte
advance(p, b) ==
    IF p.state = "Ground" THEN advance_ground(p, b) ELSE advance_escape(p, b)

\* Parser::advance on a slice
RECURSIVE advance_slice(_, _)
advance_slice(p, bytes) ==
    IF bytes = << >> THEN p
    ELSE advance_slice(advance(p, Head(bytes)), Tail(bytes))

\* the bytes inputs are made of: C0 controls, the bytes that introduce, fill
\* and end sequences, text, DEL, and UTF-8 lead, continuation and invalid bytes
InputBytes ==
    {0, BEL, 9, 10, 13, CAN, ESC, 32, 48, 58, 59, 60, 65, 80, 88, 91, 92, 93,
     109, 127, 155, 169, 194, 195, 255}

\* segments that are text: kept as they are
TextSegments ==
    {<<65>>, <<109>>, <<48>>, <<91>>, <<32>>, <<195, 169>>, <<9>>, <<10>>, <<13>>}

\* segments that leave nothing: controls and complete sequences
ControlSegments == {<<0>>, <<BEL>>, <<194, 155>>}

CsiSequences ==
    {<<ESC, 91, 109>>, <<ESC, 91, 48, 109>>, <<ESC, 91, 48, 59, 48, 109>>,
     <<ESC, 91, 60, 48, 109>>, <<ESC, 91, 48, 32, 65>>, <<ESC, 91, 58, 48, 109>>}
OscSequences ==
    {<<ESC, 93, 48, 59, 65, BEL>>, <<ESC, 93, 65, ESC, 92>>}
DcsSequences ==
    {<<ESC, 80, 48, 65, 109, ESC, 92>>, <<ESC, 80, 58, 65, ESC, 92>>}
EscSequences ==
    {<<ESC, 65>>, <<ESC, 48>>, <<ESC, 32, 65>>, <<ESC, 88, 109, ESC, 92>>}

Sequences_ansi == CsiSequences \cup OscSequences \cup DcsSequences \cup EscSequences

InitSan ==
    /\ \E mode \in {"bytes", "segments"} :
          pf = [pc |-> mode,
                input |-> << >>,       \* the bytes fed so far
                n |-> 0,               \* bytes or segments fed
                parser |-> Parser_new,
                kept |-> << >>,        \* the text segments fed, in order
                text |-> << >>]        \* what strip_ansi returned
    /\ run = [pc |-> "off"]
    /\ reg = [pc |-> "off"]
    /\ rl = [pc |-> "off"]
    /\ gate = [pc |-> "off"]
    /\ InitHttpIdle
    /\ InitWsIdle
    /\ InitStIdle

\* the input grows by one byte
SanByte(b) ==
    /\ pf.pc = "bytes"
    /\ pf.n < MaxInput
    /\ pf' = [pf EXCEPT !.input = Append(@, b), !.n = @ + 1,
                        !.parser = advance(@, b)]
    /\ PfFrame

\* the input grows by one segment
SanSegment(seg) ==
    /\ pf.pc = "segments"
    /\ pf.n < MaxSegments
    /\ pf' = [pf EXCEPT !.input = @ \o seg, !.n = @ + 1,
                        !.parser = advance_slice(@, seg),
                        !.kept = IF seg \in TextSegments THEN @ \o seg ELSE @]
    /\ PfFrame

\* extractor.into_string(): the output is returned; a partial character at
\* the end of the input is not part of it
SanReturn ==
    /\ pf.pc \in {"bytes", "segments"}
    /\ pf' = [pf EXCEPT !.pc = IF pf.pc = "bytes" THEN "stripped" ELSE "stripped segments",
                        !.text = pf.parser.output]
    /\ PfFrame

NextSan ==
    \/ \E b \in InputBytes : SanByte(b)
    \/ \E seg \in TextSegments \cup ControlSegments \cup Sequences_ansi : SanSegment(seg)
    \/ SanReturn

SpecSan == InitSan /\ [][NextSan]_vars

\* C30: for every input strip_ansi returns a text without any control
\* character in 0x00..0x1F other than tab, newline and carriage return (so
\* without ESC); and when the input is made of text characters, controls and
\* complete CSI, OSC, DCS and ESC sequences, the text is exactly the text
\* characters, tab, newline and carriage return of the input in their order:
\* no byte of a sequence, every printable character outside them.  In any
\* input, a byte met after ESC and before the sequence ends adds nothing to
\* the text, except a tab, newline or carriage return, which the parser
\* executes where it stands.
C30_SanitizerErasesControls ==
    /\ pf.pc \in {"stripped", "stripped segments"} =>
          \A i \in DOMAIN pf.text : pf.text[i] >= 32 \/ pf.text[i] \in {9, 10, 13}
    /\ pf.pc \in {"bytes", "segments"} =>
          \A b \in InputBytes :
             LET q == advance(pf.parser, b) IN
             /\ q.state \in ParserStates
             /\ pf.parser.state # "Ground" =>
                   \/ q.output = pf.parser.output
                   \/ b \in {9, 10, 13} /\ q.output = Append(pf.parser.output, b)
    /\ pf.pc = "stripped segments" => pf.text = pf.kept

\* text, a colour sequence, text: the sequence is gone and the text is kept
C30_Witness ==
    /\ pf.pc = "stripped segments"
    /\ pf.input = <<65, ESC, 91, 48, 109, 10>>
    /\ pf.text = <<65, 10>>


(***************************************************************************)
(* SpecCfg: parse_args_from and Config::load.  A run is fixed by the flags *)
(* on the command line, the environment and the configuration file; an     *)
(* absent flag, variable or field is Nothing.                              *)
(***************************************************************************)
Opt(S) == {Nothing} \cup {Some(x) : x \in S}

\* impl Default for Args
Args_default ==
    [host |-> "127.0.0.1", port |-> 3000, config |-> Nothing,
     api_key |-> Nothing, no_auth |-> FALSE, log_level |-> Nothing]

\* Config::default(): the defaults of the sections
Config_default ==
    [host |-> "127.0.0.1", port |-> 3000, auth_enabled |-> FALSE,
     api_keys |-> << >>, level |-> "info"]

\* parse_args_from: each flag given overwrites its field of Args::default()
parse_args_from(flags) ==
    [host |-> IF flags.host = Nothing THEN Args_default.host ELSE CHOOSE x \in flags.host : TRUE,
     port |-> IF flags.port = Nothing THEN Args_default.port ELSE CHOOSE x \in flags.port : TRUE,
     config |-> flags.config,
     api_key |-> flags.api_key,
     no_auth |-> flags.no_auth,
     log_level |-> flags.log_level]

\* Config::from_file with #[serde(default)]: a missing field takes its default
from_file(file) ==
    [host |-> IF file.host = Nothing THEN Config_default.host ELSE CHOOSE x \in file.host : TRUE,
     port |-> IF file.port = Nothing THEN Config_default.port ELSE CHOOSE x \in file.port : TRUE,
     auth_enabled |-> file.api_key # Nothing,
     api_keys |-> IF file.api_key = Nothing THEN << >> ELSE <<CHOOSE x \in file.api_key : TRUE>>,
     level |-> IF file.level = Nothing THEN Config_default.level ELSE CHOOSE x \in file.level : TRUE]

contains(list, x) == \E i \in DOMAIN list : list[i] = x

push_key(config, key) ==
    [config EXCEPT !.auth_enabled = TRUE,
                   !.api_keys = IF contains(@, key) THEN @ ELSE Append(@, key)]

\* Config::apply_env.  A SHELL_TUNNEL_PORT that does not parse as a u16 is -1.
apply_env(config, env) ==
    LET c1 == IF env.host = Nothing THEN config
              ELSE [config EXCEPT !.host = CHOOSE x \in env.host : TRUE]
        c2 == IF env.port = Nothing \/ env.port = Some(-1) THEN c1
              ELSE [c1 EXCEPT !.port = CHOOSE x \in env.port : TRUE]
        c3 == IF env.api_key = Nothing \/ env.api_key = Some("") THEN c2
              ELSE push_key(c2, CHOOSE x \in env.api_key : TRUE)
    IN IF env.level # Nothing THEN [c3 EXCEPT !.level = CHOOSE x \in env.level : TRUE]
       ELSE IF env.rust_log # Nothing THEN [c3 EXCEPT !.level = CHOOSE x \in env.rust_log : TRUE]
       ELSE c3

\* Config::apply_args: host and port are taken from Args whatever they are
apply_args(config, args) ==
    LET c0 == [config EXCEPT !.host = args.host, !.port = args.port]
        c1 == IF args.api_key = Nothing THEN c0
              ELSE push_key(c0, CHOOSE x \in args.api_key : TRUE)
        c2 == IF args.no_auth THEN [c1 EXCEPT !.auth_enabled = FALSE] ELSE c1
    IN IF args.log_level = Nothing THEN c2
       ELSE [c2 EXCEPT !.level = CHOOSE x \in args.log_level : TRUE]

\* Config::load; file is the content of the file --config names
load(args, env, file) ==
    LET base == IF args.config = Nothing THEN Config_default ELSE from_file(file)
    IN apply_args(apply_env(base, env), args)

CfgFlags ==
    [host : Opt({"192.168.1.1"}), port : Opt({8080}), config : Opt({"cfg.json"}),
     api_key : Opt({"cli-key"}), no_auth : BOOLEAN, log_level : Opt({"trace"})]

CfgEnvs ==
    [host : Opt({"10.0.0.2"}), port : Opt({4000, -1}),
     api_key : Opt({"env-key", ""}), level : Opt({"warn"}), rust_log : Opt({"error"})]

CfgFiles ==
    [host : Opt({"10.0.0.1"}), port : Opt({5000}), api_key : Opt({"file-key"}),
     level : Opt({"debug"})]

InitCfg ==
    /\ \E flags \in CfgFlags, env \in CfgEnvs, file \in CfgFiles :
          pf = [pc |-> "start", flags |-> flags, env |-> env, file |-> file,
                args |-> Args_default, config |-> Config_default]
    /\ run = [pc |-> "off"]
    /\ reg = [pc |-> "off"]
    /\ rl = [pc |-> "off"]
    /\ gate = [pc |-> "off"]
    /\ InitHttpIdle
    /\ InitWsIdle
    /\ InitStIdle

CfgParseArgs ==
    /\ pf.pc = "start"
    /\ pf' = [pf EXCEPT !.pc = "parsed", !.args = parse_args_from(pf.flags)]
    /\ PfFrame

CfgLoad ==
    /\ pf.pc = "parsed"
    /\ pf' = [pf EXCEPT !.pc = "loaded",
                        !.config = load(pf.args, pf.env, pf.file)]
    /\ PfFrame

NextCfg == CfgParseArgs \/ CfgLoad

SpecCfg == InitCfg /\ [][NextCfg]_vars

\* the first value present among CLI, environment and file, else the default
Priority(cli, env, file, default) ==
    IF cli # Nothing THEN CHOOSE x \in cli : TRUE
    ELSE IF env # Nothing THEN CHOOSE x \in env : TRUE
    ELSE IF file # Nothing THEN CHOOSE x \in file : TRUE
    ELSE default

\* what the file gives: nothing when no --config was given
FileField(field) == IF pf.flags.config = Nothing THEN Nothing ELSE field

EnvPort == IF pf.env.port = Some(-1) THEN Nothing ELSE pf.env.port
EnvKey == IF pf.env.api_key = Some("") THEN Nothing ELSE pf.env.api_key
EnvLevel == IF pf.env.level # Nothing THEN pf.env.level ELSE pf.env.rust_log

\* C31: after Config::load each of host, port and log level is the value
\* of the command line when its flag was given, else of the environment when
\* the variable is set, else of the configuration file when the field is
\* present, else the default; and the API key that wins by the same order,
\* when there is one, is among the configured keys.
C31_ConfigPriority ==
    pf.pc = "loaded" =>
       /\ pf.config.host = Priority(pf.flags.host, pf.env.host,
                                    FileField(pf.file.host), Config_default.host)
       /\ pf.config.port = Priority(pf.flags.port, EnvPort,
                                    FileField(pf.file.port), Config_default.port)
       /\ pf.config.level = Priority(pf.flags.log_level, EnvLevel,
                                     FileField(pf.file.level), Config_default.level)
       /\ LET key == Priority(pf.flags.api_key, EnvKey,
                              FileField(pf.file.api_key), "none")
          IN key # "none" => contains(pf.config.api_keys, key)


(***************************************************************************)
(* Concurrent requests on one session (Spec)                               *)
(***************************************************************************)
\* the execute requests whose command has been started and has not ended
RunningIn(id) ==
    {k \in DOMAIN reqs : reqs[k].kind = "execute" /\ reqs[k].id = id /\ reqs[k].pc = "e_run"}

\* no request other than an execute has changed a session's state: there is
\* no delete, and no create whose update moved its session to Idle
OnlyExecutes ==
    \A k \in DOMAIN reqs :
       /\ reqs[k].kind # "delete"
       /\ reqs[k].kind = "create" => reqs[k].seen # "Idle"

\* C32: with only execute requests interleaved on one session, whenever a
\* command started by execute_in_session is still running the stored state
\* of its session is Active.
C32_RunningIsActive ==
    OnlyExecutes =>
       \A id \in SessionIds :
          RunningIn(id) # {} => StoredState(sessions, id) = "Active"


\* the delete requests on a session answered 204
Deleted204(id) ==
    {k \in DOMAIN reqs : reqs[k].kind = "delete" /\ reqs[k].id = id /\ reqs[k].resp = 204}

\* C33: of the DELETE requests on one session id at most one is answered
\* 204, and every 204 is the answer of the request whose remove took the
\* session out of the registry: the 204 responses are as many as the sessions
\* removed.
C33_OneDelete204 ==
    \A id \in SessionIds :
       /\ Cardinality(Deleted204(id)) <= 1
       /\ \A k \in Deleted204(id) : reqs[k].removed # "Absent"


(***************************************************************************)
(* The session-scoped WebSocket and its session (SpecWs)                   *)
(***************************************************************************)
\* C34: the session-scoped WebSocket has started a command only for a
\* session that is in the registry and can execute (Active or Idle); the
\* registry does not change under SpecWs, so the session now is the session
\* the execute frame found.
C34_WsExecutesOnlyExecutable ==
    (wsKind = "scoped" /\ workers # << >>) =>
       /\ store_contains(sessions, WsSession)
       /\ can_execute(sessions[WsSession].state)


(***************************************************************************)
(* The sliding window and the retry time (SpecRl)                          *)
(***************************************************************************)
IsSorted(timestamps) ==
    \A i, j \in DOMAIN timestamps : i <= j => timestamps[i] <= timestamps[j]

\* the checks of source ip that were admitted with a timestamp in the
\* trailing window (now - window, now]
AdmittedInWindow(ip) ==
    {i \in ChecksOf(ip) :
        /\ rl.log[i].ok
        /\ rl.stamps[i] > rl.t - rl.config.window
        /\ rl.stamps[i] <= rl.t}

\* C35: with the limiter enabled, in every state and for every source the
\* stored timestamps are in non-decreasing order and at most max_requests,
\* and the requests of the source admitted with a timestamp in the trailing
\* window (now - window, now] are at most max_requests.
C35_SlidingWindowBound ==
    rl.config.enabled =>
       \A ip \in Sources :
          /\ ip \in DOMAIN rl.records =>
                /\ IsSorted(rl.records[ip])
                /\ Len(rl.records[ip]) <= rl.config.max_requests
          /\ Cardinality(AdmittedInWindow(ip)) <= rl.config.max_requests


\* the admitted checks of source ip answered at time v
AdmittedAt(ip, v) == {i \in ChecksOf(ip) : rl.log[i].ok /\ rl.stamps[i] = v}

\* a record holds timestamps of admitted checks only, one per check
OnlyAdmittedStored ==
    \A ip \in DOMAIN rl.records :
       \A n \in DOMAIN rl.records[ip] :
          LET v == rl.records[ip][n]
          IN  Cardinality({m \in DOMAIN rl.records[ip] : rl.records[ip][m] = v})
                 <= Cardinality(AdmittedAt(ip, v))

\* check j of a source is a retry of its blocked check i: it was made
\* retry_after or more after i was answered, with no admitted check of the
\* source in between
RetryOf(i, j) ==
    /\ i < j
    /\ rl.log[j].ip = rl.log[i].ip
    /\ ~rl.log[i].ok
    /\ rl.log[j].at >= rl.stamps[i] + rl.log[i].retry_after
    /\ \A m \in ChecksOf(rl.log[i].ip) : (i < m /\ m < j) => ~rl.log[m].ok

\* C36 as stated: a blocked check stores no timestamp, its retry_after is
\* within the window, and the source's check made retry_after or more later,
\* with no admitted check of the source in between, is allowed.
C36_RetryAdmitted ==
    rl.config.enabled =>
       /\ OnlyAdmittedStored
       /\ \A i, j \in DOMAIN rl.log : RetryOf(i, j) => rl.log[j].ok

\* C36 as amended: the same for a limiter whose max_requests is at least 1
\* (with max_requests = 0 every check is blocked, the retry too).
C36_RetryAdmittedPositiveQuota ==
    (rl.config.enabled /\ rl.config.max_requests >= 1) =>
       /\ OnlyAdmittedStored
       /\ \A i, j \in DOMAIN rl.log : RetryOf(i, j) => rl.log[j].ok

\* a source was blocked with a retry_after above zero, was blocked again when
\* it retried too early, and was admitted when it retried retry_after later
C36_Witness ==
    /\ rl.config.enabled
    /\ rl.config.max_requests >= 1
    /\ \E i, m, j \in DOMAIN rl.log :
          /\ RetryOf(i, j)
          /\ rl.log[i].retry_after > 0
          /\ i < m /\ m < j
          /\ rl.log[m].ip = rl.log[i].ip
          /\ rl.log[j].ok


\* the clock of SpecRl read in half seconds: a Duration of whole seconds is
\* an even number of ticks
TicksPerSecond == 2

\* rate_limit_middleware: the value of the Retry-After header of a 429,
\* retry_after.as_secs()
retry_after_header(d) == d \div TicksPerSecond

\* check j of a source is the retry of a client that got 429 for check i and
\* waited the seconds of its Retry-After header or longer, with no admitted
\* check of the source in between
HeaderRetryOf(i, j) ==
    /\ i < j
    /\ rl.log[j].ip = rl.log[i].ip
    /\ ~rl.log[i].ok
    /\ rl.log[j].at >= rl.stamps[i] + retry_after_header(rl.log[i].retry_after) * TicksPerSecond
    /\ \A m \in ChecksOf(rl.log[i].ip) : (i < m /\ m < j) => ~rl.log[m].ok

\* C37: with a window of whole seconds and max_requests at least 1, a client
\* that got 429, waited the whole seconds of the Retry-After header and then
\* retried from the same source, with no admitted request of the source in
\* between, is admitted.
C37_RetryAfterHeaderSuffices ==
    (/\ rl.config.enabled
     /\ rl.config.max_requests >= 1
     /\ rl.config.window % TicksPerSecond = 0) =>
        \A i, j \in DOMAIN rl.log : HeaderRetryOf(i, j) => rl.log[j].ok


(***************************************************************************)
(* The compaction sweep (SpecRl)                                           *)
(***************************************************************************)
Newest(timestamps) == timestamps[Len(timestamps)]

\* the records the sweep found that were not stale: dropped, if at all, to
\* meet the cap
DroppedForCap ==
    {ip \in DOMAIN rl.sweep.pre \ DOMAIN rl.sweep.post :
        /\ rl.sweep.pre[ip] # << >>
        /\ Newest(rl.sweep.pre[ip]) > rl.sweep.at - 2 * rl.config.window}

\* C38: right after a compaction sweep every record left is one the sweep
\* found, unchanged, with a timestamp list that is not empty and a newest
\* timestamp not older than now - 2 * window; the records left are at most
\* max_tracked_ips; and every record dropped to meet the cap has a newest
\* timestamp no later than that of every record kept.
C38_SweepPostcondition ==
    rl.sweep.at >= 0 =>
       LET pre == rl.sweep.pre
           post == rl.sweep.post
       IN  /\ \A ip \in DOMAIN post :
                 /\ ip \in DOMAIN pre /\ post[ip] = pre[ip]
                 /\ post[ip] # << >>
                 /\ ~(Newest(post[ip]) < rl.sweep.at - 2 * rl.config.window)
           /\ Cardinality(DOMAIN post) <= rl.config.max_tracked_ips
           /\ \A d \in DroppedForCap : \A k \in DOMAIN post :
                 Newest(pre[d]) <= Newest(post[k])

\* a sweep found two records within the double window and a cap of one: it
\* dropped the one with the older newest timestamp and kept the other
C38_Witness ==
    /\ rl.sweep.at >= 0
    /\ rl.config.max_tracked_ips = 1
    /\ Cardinality(DOMAIN rl.sweep.post) = 1
    /\ \E d \in DroppedForCap : \E k \in DOMAIN rl.sweep.post :
          Newest(rl.sweep.pre[d]) < Newest(rl.sweep.post[k])


(***************************************************************************)
(* SpecRlConc: threads inside RateLimiter::check and stats at the same     *)
(* time, one step per lock acquisition or release.  The limiter's two      *)
(* RwLocks are held by a writer (a thread, or 0) or by readers.            *)
(***************************************************************************)
MaxRlThreads == 3
MaxConcClock == 6

RlThreads == 1 .. MaxRlThreads

ConcConfig == [enabled |-> TRUE, max_requests |-> 1, window |-> 1, max_tracked_ips |-> 1]

\* maybe_cleanup's test under the read lock: t.elapsed() > window * 2
should_cleanup(last, t, cfg) == t - last > cfg.window * 2

\* maybe_cleanup without its double-check
double_check_never(last, t, cfg) == FALSE

\* maybe_cleanup's test under the write lock: last.elapsed() <= window * 2
double_check(last, t, cfg) == t - last <= cfg.window * 2

NoThread(op, ip) ==
    [op |-> op, ip |-> ip, pc |-> "start",
     saw |-> -1,          \* last_cleanup as read under the read lock
     checkedAt |-> -1,    \* the clock at the double-check
     swept |-> FALSE,     \* this call set last_cleanup and swept
     sweptAt |-> -1,      \* ... to this time
     skipped |-> FALSE]   \* this call returned at the double-check

InitRlConc ==
    /\ \E ops \in [RlThreads -> {"check", "stats"}] :
          rl = [pc |-> "conc",
                config |-> ConcConfig,
                t |-> 0,
                last_cleanup |-> 0,
                records |-> << >>,
                writer |-> [last_cleanup |-> 0, records |-> 0],
                readers |-> {},      \* threads holding records.read()
                th |-> [i \in RlThreads |->
                          NoThread(ops[i], IF i > MaxSources THEN MaxSources ELSE i)]]
    /\ run = [pc |-> "off"]
    /\ reg = [pc |-> "off"]
    /\ gate = [pc |-> "off"]
    /\ pf = [pc |-> "off"]
    /\ InitHttpIdle
    /\ InitWsIdle
    /\ InitStIdle

ConcTick ==
    /\ rl.pc = "conc"
    /\ rl.t < MaxConcClock
    /\ rl' = [rl EXCEPT !.t = @ + 1]
    /\ RlFrame

\* what thread i waits for: a lock it can be given, or nothing
CanStep(i) ==
    LET me == rl.th[i]
    IN  CASE me.pc = "done" -> FALSE
          [] me.op = "stats" /\ me.pc = "start" -> rl.writer.records = 0
          [] me.op = "check" /\ me.pc \in {"start", "mc_write"} ->
                rl.writer.last_cleanup = 0
          [] me.pc \in {"mc_sweep", "records"} ->
                rl.writer.records = 0 /\ rl.readers = {}
          [] OTHER -> TRUE

\* check: the enabled test, then maybe_cleanup's last_cleanup.read()
ConcObserve(i) ==
    /\ rl.pc = "conc"
    /\ rl.th[i].op = "check" /\ rl.th[i].pc = "start"
    /\ CanStep(i)
    /\ rl' = [rl EXCEPT !.th[i] =
                IF ~rl.config.enabled THEN [@ EXCEPT !.pc = "done"]
                ELSE [@ EXCEPT !.saw = rl.last_cleanup,
                               !.pc = IF should_cleanup(rl.last_cleanup, rl.t, rl.config)
                                      THEN "mc_write" ELSE "records"]]
    /\ RlFrame

\* maybe_cleanup: last_cleanup.write(), the double-check, *last = now
ConcDoubleCheck(i) ==
    /\ rl.pc = "conc"
    /\ rl.th[i].pc = "mc_write"
    /\ CanStep(i)
    /\ rl' = IF double_check(rl.last_cleanup, rl.t, rl.config)
             THEN [rl EXCEPT !.th[i] = [@ EXCEPT !.pc = "records", !.skipped = TRUE,
                                                 !.checkedAt = rl.t]]
             ELSE [rl EXCEPT !.last_cleanup = rl.t,
                             !.writer.last_cleanup = i,
                             !.th[i] = [@ EXCEPT !.pc = "mc_sweep", !.swept = TRUE,
                                                 !.checkedAt = rl.t,
                                                 !.sweptAt = rl.t]]
    /\ RlFrame

\* maybe_cleanup: records.write() with last_cleanup held, the sweep
ConcSweep(i) ==
    /\ rl.pc = "conc"
    /\ rl.th[i].pc = "mc_sweep"
    /\ CanStep(i)
    /\ LET recent == retain_recent(rl.records, rl.t, rl.config.window)
       IN  \E E \in IF Cardinality(DOMAIN recent) > rl.config.max_tracked_ips
                    THEN oldest_entries(recent, rl.config.max_tracked_ips)
                    ELSE {{}} :
              rl' = [rl EXCEPT !.records = [ip \in DOMAIN recent \ E |-> recent[ip]],
                               !.writer.records = i,
                               !.th[i] = [@ EXCEPT !.pc = "mc_swept"]]
    /\ RlFrame

\* maybe_cleanup returns: both guards are dropped
ConcSweepRelease(i) ==
    /\ rl.pc = "conc"
    /\ rl.th[i].pc = "mc_swept"
    /\ rl' = [rl EXCEPT !.writer = [last_cleanup |-> 0, records |-> 0],
                        !.th[i] = [@ EXCEPT !.pc = "records"]]
    /\ RlFrame

\* check: records.write() and the body of check
ConcCheck(i) ==
    /\ rl.pc = "conc"
    /\ rl.th[i].pc = "records"
    /\ CanStep(i)
    /\ rl' = [rl EXCEPT
                !.records = check_enabled(<<rl.records, rl.last_cleanup>>,
                                          rl.th[i].ip, rl.t, 0, rl.config).records,
                !.writer.records = i,
                !.th[i] = [@ EXCEPT !.pc = "checked"]]
    /\ RlFrame

\* check returns: the guard is dropped
ConcCheckRelease(i) ==
    /\ rl.pc = "conc"
    /\ rl.th[i].pc = "checked"
    /\ rl' = [rl EXCEPT !.writer.records = 0, !.th[i] = [@ EXCEPT !.pc = "done"]]
    /\ RlFrame

\* stats: records.read()
ConcStats(i) ==
    /\ rl.pc = "conc"
    /\ rl.th[i].op = "stats" /\ rl.th[i].pc = "start"
    /\ CanStep(i)
    /\ rl' = [rl EXCEPT !.readers = @ \cup {i}, !.th[i] = [@ EXCEPT !.pc = "reading"]]
    /\ RlFrame

\* stats returns: the read guard is dropped
ConcStatsRelease(i) ==
    /\ rl.pc = "conc"
    /\ rl.th[i].pc = "reading"
    /\ rl' = [rl EXCEPT !.readers = @ \ {i}, !.th[i] = [@ EXCEPT !.pc = "done"]]
    /\ RlFrame

NextRlConc ==
    \/ ConcTick
    \/ \E i \in RlThreads : ConcObserve(i)
    \/ \E i \in RlThreads : ConcDoubleCheck(i)
    \/ \E i \in RlThreads : ConcSweep(i)
    \/ \E i \in RlThreads : ConcSweepRelease(i)
    \/ \E i \in RlThreads : ConcCheck(i)
    \/ \E i \in RlThreads : ConcCheckRelease(i)
    \/ \E i \in RlThreads : ConcStats(i)
    \/ \E i \in RlThreads : ConcStatsRelease(i)

SpecRlConc == InitRlConc /\ [][NextRlConc]_vars

\* the calls that saw, under the read lock, more than 2 * window elapsed
\* since the last compaction at L
Observers(L) == {i \in RlThreads : rl.th[i].saw = L /\ rl.th[i].checkedAt >= 0}

\* no interleaving leaves threads waiting for locks nobody will release
NoLockDeadlock ==
    (\E i \in RlThreads : rl.th[i].pc # "done") => \E i \in RlThreads : CanStep(i)

\* C39 as stated: of the concurrent check calls that all saw more than
\* 2 * window elapsed since the last compaction, exactly one performs the
\* sweep and the others skip it; and no interleaving of check and stats
\* calls deadlocks on the two locks.
C39_ExactlyOneSweeps ==
    /\ \A L \in 0 .. MaxConcClock :
          Observers(L) # {} =>
             Cardinality({i \in Observers(L) : rl.th[i].swept}) = 1
    /\ NoLockDeadlock

\* C39 as amended: two sweeps are always more than 2 * window apart, and a
\* call that saw the compaction overdue skips it only when another call has
\* swept no more than 2 * window before; so of such concurrent calls exactly
\* one sweeps unless a later one takes the last-compaction lock more than
\* 2 * window after that sweep, and then it sweeps again.  No interleaving
\* of check and stats calls deadlocks on the two locks.
C39_SweepsApart ==
    /\ \A i, j \in RlThreads :
          (i # j /\ rl.th[i].swept /\ rl.th[j].swept /\ rl.th[i].sweptAt <= rl.th[j].sweptAt)
             => rl.th[j].sweptAt - rl.th[i].sweptAt > 2 * rl.config.window
    /\ \A i \in RlThreads :
          rl.th[i].skipped =>
             \E j \in RlThreads \ {i} :
                /\ rl.th[j].swept
                /\ rl.th[j].sweptAt > rl.th[i].saw
                /\ rl.th[j].sweptAt <= rl.th[i].checkedAt
                /\ rl.th[i].checkedAt - rl.th[j].sweptAt <= 2 * rl.config.window
    /\ \A i \in RlThreads :
          rl.th[i].checkedAt >= 0 => (rl.th[i].swept # rl.th[i].skipped)
    /\ NoLockDeadlock

\* three check calls saw the compaction overdue at the same time; one swept,
\* the two others skipped it, and all three returned
C39_Witness ==
    /\ \A i \in RlThreads :
          /\ rl.th[i].op = "check" /\ rl.th[i].pc = "done"
          /\ rl.th[i].saw = 0 /\ rl.th[i].checkedAt >= 0
    /\ Cardinality({i \in RlThreads : rl.th[i].swept}) = 1
    /\ Cardinality({i \in RlThreads : rl.th[i].skipped}) = 2


(***************************************************************************)
(* The chunks of a drained execute_async run (SpecAsync)                   *)
(***************************************************************************)
\* the chunks the caller has received, in the order it received them
Delivered == [i \in DOMAIN sent |-> sent[i].chunk]

\* the caller kept the receiver and received until the channel was empty and
\* closed: the next rx.recv() yields None
Drained(w) ==
    /\ wsKind = "lib" /\ wsPc = "hold"
    /\ w.rxAlive /\ w.rxDropped = "no"
    /\ ~Running(w) /\ w.chan = << >>

\* C40: while the receiver of an execute_async run is alive its channel holds
\* at most 64 chunks, and once the run has returned a result, completed or
\* timed out, and the caller has drained the channel, the chunks delivered
\* are, in their order, the raw output of that result.
C40_ChunksAreRawOutput ==
    \A e \in DOMAIN workers :
       LET w == workers[e]
       IN  /\ Len(w.chan) <= ChannelCapacity
           /\ (Drained(w) /\ w.result.kind = "ok") => Delivered = w.result.raw

\* a run that timed out after more chunks than the channel holds, all of
\* them delivered to the caller
C40_Witness ==
    /\ workers # << >>
    /\ Drained(workers[1])
    /\ workers[1].result.kind = "ok" /\ workers[1].result.timed_out
    /\ Len(workers[1].result.raw) > ChannelCapacity
    /\ Len(sent) = Len(workers[1].result.raw)

=============================================================================
